---- MODULE Spec2Model ----
(***************************************************************************)
(* A state-machine model of grbl/Stepper.c (GRBL-Advanced): the segment    *)
(* preparer Stepper_PrepareBuffer, the step generator Stepper_MainISR, the *)
(* pulse reset Stepper_PortResetISR and the control facade, sharing the    *)
(* segment ring and the stepper block pool.                                *)
(*                                                                         *)
(* Arithmetic.  The preparer's float quantities are fixed-point integers:  *)
(* time is counted in step-timer cycles (so the source's factor            *)
(* TICKS_PER_MICROSECOND*1000000*60, minutes to cycles, is 1), distance in *)
(* distance quanta, speed in quanta per cycle, acceleration in quanta per  *)
(* cycle squared.  A float operation is the exact rational operation       *)
(* rounded to an integer (division rounds down, sqrt rounds down), except  *)
(* step_per_mm, which is kept as the exact fraction steps/millimeters so   *)
(* that ceil() of a step distance is computed exactly.                     *)
(*                                                                         *)
(* Contexts.  The main program (preparer, facade, supervisor, planner)     *)
(* runs one statement group at a time, tracked by pc; the two interrupt    *)
(* handlers are atomic and may run between any two preparer steps.         *)
(***************************************************************************)
EXTENDS Integers, Sequences, FiniteSets, TLC

\* ------------------------------------------------------------------------
\* Configuration (Config.h, Stepper.c:37-73)
\* ------------------------------------------------------------------------
N_AXIS == 3
Axes == 0 .. (N_AXIS - 1)
X_AXIS == 0

SEGMENT_BUFFER_SIZE == 3
F_TIMER_STEPPER == 240000
ACCELERATION_TICKS_PER_SECOND == 4000

\* Stepper.c:38, in timer cycles instead of minutes.
DT_SEGMENT == F_TIMER_STEPPER \div ACCELERATION_TICKS_PER_SECOND

RAMP_ACCEL == 0
RAMP_CRUISE == 1
RAMP_DECEL == 2
RAMP_DECEL_OVERRIDE == 3

PREP_FLAG_RECALCULATE == "RECALCULATE"
PREP_FLAG_HOLD_PARTIAL_BLOCK == "HOLD_PARTIAL_BLOCK"
PREP_FLAG_PARKING == "PARKING"
PREP_FLAG_DECEL_OVERRIDE == "DECEL_OVERRIDE"

MAX_AMASS_LEVEL == 3
AMASS_LEVEL1 == F_TIMER_STEPPER \div 8000
AMASS_LEVEL2 == F_TIMER_STEPPER \div 4000
AMASS_LEVEL3 == F_TIMER_STEPPER \div 2000

STEP_TIMER_MIN == (F_TIMER_STEPPER \div 60000) % 65536

\* Flags of sys.step_control, sys_rt_exec_state, settings.flags, block condition.
STEP_CONTROL_END_MOTION == "END_MOTION"
STEP_CONTROL_EXECUTE_HOLD == "EXECUTE_HOLD"
STEP_CONTROL_EXECUTE_SYS_MOTION == "EXECUTE_SYS_MOTION"
STEP_CONTROL_UPDATE_SPINDLE_PWM == "UPDATE_SPINDLE_PWM"
EXEC_CYCLE_STOP == "EXEC_CYCLE_STOP"
BITFLAG_INVERT_ST_ENABLE == "INVERT_ST_ENABLE"
BITFLAG_LASER_MODE == "LASER_MODE"
PL_COND_FLAG_SPINDLE_CW == "SPINDLE_CW"
PL_COND_FLAG_SPINDLE_CCW == "SPINDLE_CCW"
STATE_IDLE == "STATE_IDLE"
STATE_CYCLE == "STATE_CYCLE"
STATE_HOMING == "STATE_HOMING"
STATE_HOLD == "STATE_HOLD"
STATE_SLEEP == "STATE_SLEEP"
SPINDLE_PWM_OFF_VALUE == 0

\* A null pointer, and a pointer to element i of an array.
NULL == << >>
Ptr(i) == << i >>
Deref(p) == p[1]

\* ------------------------------------------------------------------------
\* Bounds of the model
\* ------------------------------------------------------------------------
\* Planner blocks the planner hands out in one run.
MaxBlocks == 3
\* Planner blocks queued at one time.
MaxQueue == 2

BlockIds == 1 .. MaxBlocks
\* How many times in one run the supervisor resets or holds.
MaxEvents == 2
\* The longest step period, in timer cycles, of the timing computation's
\* own specification.
MaxTimingCycles == 260

\* ------------------------------------------------------------------------
\* Integer helpers: fixed width, ceil, sqrt
\* ------------------------------------------------------------------------
U8(n) == n % 256
U16(n) == n % 65536
\* A uint32_t.  The model checker's integers end at 2^31 - 1 and it stops with
\* an error on any result beyond, so every 32-bit value of a completed run is
\* below 2^31, where the reduction modulo 2^32 changes nothing.
U32(n) == IF n < 0 THEN n + 2147483647 + 1 ELSE n

Shl(n, k) == n * (2 ^ k)
Shr(n, k) == n \div (2 ^ k)

\* ceil(a/b) for b > 0
CeilDiv(a, b) == (a + b - 1) \div b

\* Float division: a/0 is inf or NaN in the source; the model yields 0 and
\* the caller records that the value is not a number (field nan).
FDiv(a, b) == IF b = 0 THEN 0 ELSE a \div b

RECURSIVE SqrtSearch(_, _, _)
SqrtSearch(n, lo, hi) ==
    IF lo >= hi THEN lo
    ELSE LET mid == (lo + hi + 1) \div 2
         IN  IF mid * mid <= n THEN SqrtSearch(n, mid, hi)
             ELSE SqrtSearch(n, lo, mid - 1)

\* sqrt() rounded down; sqrt of a negative float is NaN, modelled as 0.
Sqrt(n) == IF n <= 0 THEN 0 ELSE SqrtSearch(n, 0, 46340)

Max(a, b) == IF a >= b THEN a ELSE b
Min(a, b) == IF a <= b THEN a ELSE b

Zero3 == [a \in Axes |-> 0]

\* ------------------------------------------------------------------------
\* State
\* ------------------------------------------------------------------------
VARIABLES
    segment_buffer,       \* Stepper.c:157  [0..SEGMENT_BUFFER_SIZE-1 -> Stepper_Segment_t]
    st_block_buffer,      \* Stepper.c:156  [0..SEGMENT_BUFFER_SIZE-2 -> Stepper_Block_t]
    segment_buffer_tail,  \* Stepper.c:161
    segment_buffer_head,  \* Stepper.c:162
    segment_next_head,    \* Stepper.c:163
    st,                   \* Stepper.c:158  Stepper_t
    prep,                 \* Stepper.c:175  Stepper_PrepData_t
    pl_block,             \* Stepper.c:171  NULL, <<"cur">> or <<"sys">>
    st_prep_block,        \* Stepper.c:172  NULL or Ptr(pool index)
    step_port_invert_mask, \* Stepper.c:166 set of axes
    dir_port_invert_mask, \* Stepper.c:167  set of axes
    sys,                  \* System.h: state, step_control, homing_axis_lock, alarm
    sys_rt_exec_state,    \* set of realtime execution flags
    sys_position,         \* [Axes -> Int]
    settings,             \* Settings.h
    tim9,                 \* step timer: enabled, ARR, CCR1, next event
    gpio,                 \* pin levels: step, dir, enable; spindle pwm output
    planner,              \* the planner's block queue and system motion block
    pc,                   \* where the main program is inside Stepper_PrepareBuffer
    loc,                  \* locals of Stepper_PrepareBuffer
    hist,                 \* history: per planner block, what was programmed and emitted
    seg_blk,              \* history: the planner block the segment in each ring slot
                          \* is carved from, 0 for a slot that holds no segment
    pool_blk,             \* history: the planner block each pool entry was loaded from
    isr,                  \* history: the last Stepper_MainISR invocation
    used                  \* history: resets and holds so far

ringv == << segment_buffer, segment_buffer_tail, segment_buffer_head, segment_next_head >>
prepv == << prep, pl_block, st_prep_block, pc, loc >>
maskv == << step_port_invert_mask, dir_port_invert_mask >>
sysv == << sys, sys_rt_exec_state, sys_position, settings >>
hwv == << tim9, gpio >>
ghostv == << hist, seg_blk, pool_blk, isr, used >>
vars == << ringv, st_block_buffer, st, prepv, maskv, sysv, hwv, planner, ghostv >>

Slots == 0 .. (SEGMENT_BUFFER_SIZE - 1)
PoolIdx == 0 .. (SEGMENT_BUFFER_SIZE - 2)

\* The ring slots from tail up to, not including, head.
RECURSIVE RingRange(_, _)
RingRange(t, h) ==
    IF t = h \/ t \notin Slots \/ h \notin Slots THEN {}
    ELSE {t} \cup RingRange((t + 1) % SEGMENT_BUFFER_SIZE, h)

Occupied == RingRange(segment_buffer_tail, segment_buffer_head)

\* ------------------------------------------------------------------------
\* Zero-initialised statics (C static storage; memset in Stepper_Reset)
\* ------------------------------------------------------------------------
ZeroSegment ==
    [n_step |-> 0, cycles_per_tick |-> 0, st_block_index |-> 0,
     amass_level |-> 0, spindle_pwm |-> 0, backlash_motion |-> 0]

ZeroBlock ==
    [steps |-> Zero3, step_event_count |-> 0, direction_bits |-> {},
     is_pwm_rate_adjusted |-> FALSE]

\* Stepper_t without execute_step and step_pulse_time, which no code reads.
ZeroSt ==
    [counter |-> Zero3, step_outbits |-> {}, dir_outbits |-> {}, steps |-> Zero3,
     step_count |-> 0, exec_block_index |-> 0, exec_block |-> NULL,
     exec_segment |-> NULL]

\* A float that holds the fraction n/d exactly.
Frac(n, d) == [n |-> n, d |-> d]

ZeroPrep ==
    [st_block_index |-> 0, recalculate_flag |-> {}, dt_remainder |-> 0,
     steps_remaining |-> 0, step_per_mm |-> Frac(0, 1), req_mm_increment |-> 0,
     last_st_block_index |-> 0, last_steps_remaining |-> 0,
     last_step_per_mm |-> Frac(0, 1), last_dt_remainder |-> 0,
     ramp_type |-> 0, mm_complete |-> 0, current_speed |-> 0, maximum_speed |-> 0,
     exit_speed |-> 0, accelerate_until |-> 0, decelerate_after |-> 0,
     inv_rate |-> Frac(0, 1), current_spindle_pwm |-> 0]

ZeroLoc ==
    [prep_segment |-> 0, dt |-> 0, mm_remaining |-> 0, n_steps_remaining |-> 0,
     last_n_steps_remaining |-> 0, inv_rate |-> Frac(0, 1), nan |-> FALSE,
     cycles |-> 0, at_entry |-> << >>]

ZeroHist ==
    [steps |-> Zero3, direction_bits |-> {}, backlash_motion |-> 0,
     emitted |-> Zero3, posd |-> Zero3, enq |-> 0, deq |-> 0, enq_steps |-> 0,
     levels |-> {}, step_event_count |-> 0, held |-> FALSE,
     carved |-> FALSE, discarded |-> FALSE, aborted |-> FALSE, setup |-> << >>]

\* probe: whether the invocation went on to the probe check at Stepper.c:502.
NoIsr == [path |-> "none", delay_us |-> 0, delay_ms |-> 0, blk |-> 0, probe |-> FALSE]

\* ------------------------------------------------------------------------
\* Planner (Planner.c is not part of the sources; modelled from the
\* planner contract: a queue of blocks whose head is the current block)
\* ------------------------------------------------------------------------
Steps3(x, y, z) == [a \in Axes |-> << x, y, z >>[a + 1]]

MaxOf3(f) == Max(f[0], Max(f[1], f[2]))

\* What the planner programs for one block; step_event_count is the largest
\* per-axis step count.
Block(steps, dirs, mm, acc, entry_sqr, nominal, backlash, cond, rpm) ==
    [steps |-> steps, step_event_count |-> MaxOf3(steps), direction_bits |-> dirs,
     millimeters |-> mm, acceleration |-> acc, entry_speed_sqr |-> entry_sqr,
     nominal_speed |-> nominal, programmed_rate |-> nominal,
     backlash_motion |-> backlash, condition |-> cond, spindle_speed |-> rpm]

\* The blocks of the part programs.  A step is 6000 distance units here, so
\* a speed of 50 units a cycle is 120 cycles a step.
\* A ramp from rest over three axes, its segments at falling AMASS levels.
RampBlock == Block(Steps3(1, 3, 2), {0}, 18000, 2, 0, 300, 0, {PL_COND_FLAG_SPINDLE_CW}, 9)
\* A backlash move faster than the step rate ceiling.
FastBlock == Block(Steps3(0, 1, 2), {1, 2}, 12000, 2000, 0, 5000, 1, {}, 0)
\* A short, slow laser move (AMASS level 3) with the spindle rate-adjusted.
LaserBlock == Block(Steps3(1, 0, 0), {0}, 6000, 1, 1600, 40, 0, {PL_COND_FLAG_SPINDLE_CCW}, 7)
\* A two-axis move entered above its nominal speed, as after a feed
\* override reduction.
OverrideBlock == Block(Steps3(2, 1, 0), {}, 12000, 20, 250000, 400, 0, {}, 0)

\* A long move at a cruising speed it takes more than a step to stop from.
CoastBlock == Block(Steps3(5, 1, 0), {1}, 24000, 1, 14400, 120, 0, {}, 0)

\* A move like CoastBlock of an even number of steps, its second axis at half
\* the rate: after every odd tick of the block the second axis's Bresenham
\* counter stands at step_event_count exactly.
EvenBlock == Block(Steps3(8, 1, 0), {1}, 38400, 1, 14400, 120, 0, {}, 0)

\* The part programs the planner is fed.
Programs ==
    << << RampBlock, FastBlock, LaserBlock >>,
       << FastBlock, OverrideBlock >>,
       << CoastBlock >>,
       << EvenBlock >> >>

\* The block the planner queues next.
ProgramBlock(program, id) == Programs[program][id]

Planner_GetCurrentBlock ==
    IF planner.queue = << >> THEN NULL ELSE << "cur" >>

Planner_GetSystemMotionBlock ==
    IF planner.sys_block = NULL THEN NULL ELSE << "sys" >>

\* The planner block a block pointer designates.
PlannerBlockAt(pl, p) ==
    IF p = << "sys" >> THEN pl.sys_block[1] ELSE Head(pl.queue)

\* The planner with the block a pointer designates replaced.
PlannerWithBlock(pl, p, b) ==
    IF p = << "sys" >> THEN [pl EXCEPT !.sys_block = << b >>]
    ELSE [pl EXCEPT !.queue = << b >> \o Tail(pl.queue)]

\* Exit speed squared of the executing block: the entry speed squared of the
\* block queued behind it, 0 when it is the last one.
Planner_GetExecBlockExitSpeedSqr ==
    IF Len(planner.queue) >= 2 THEN planner.queue[2].entry_speed_sqr ELSE 0

Planner_ComputeProfileNominalSpeed(b) == b.nominal_speed

Planner_DiscardCurrentBlock(pl) ==
    IF pl.queue = << >> THEN pl ELSE [pl EXCEPT !.queue = Tail(pl.queue)]

\* The identifier of the block the planner queues next.
NextBlockId == planner.issued + 1

\* ------------------------------------------------------------------------
\* Settings the machine may run with
\* ------------------------------------------------------------------------
SettingsSet ==
    { [step_invert_mask |-> {1}, dir_invert_mask |-> {0},
       flags |-> {BITFLAG_LASER_MODE, BITFLAG_INVERT_ST_ENABLE},
       stepper_idle_lock_time |-> 25] }

\* ------------------------------------------------------------------------
\* Control facade
\* ------------------------------------------------------------------------
\* Stepper_PortResetISR: every step pin back to its idle level.
StepPinsIdle == [a \in Axes |-> IF a \in step_port_invert_mask THEN 1 ELSE 0]

\* A dwell decided by the idle lock time and the homing state alone.
IdleLockTimeOnly ==
    settings.stepper_idle_lock_time /= 255 /\ sys.state /= STATE_HOMING

\* Stepper.c:265: whether Stepper_Disable dwells to lock the axes.
IdleLockDwell ==
    /\ \/ settings.stepper_idle_lock_time /= 255
       \/ sys.alarm /= 0
       \/ sys.state = STATE_SLEEP
    /\ sys.state /= STATE_HOMING

\* Stepper.c:262-287: the level Stepper_Disable leaves on the enable pin.
DisabledEnablePin(ovr_disable) ==
    LET pin0 == IdleLockDwell \/ ovr_disable
        pin_state == IF BITFLAG_INVERT_ST_ENABLE \in settings.flags THEN ~pin0 ELSE pin0
    IN  IF pin_state THEN 1 ELSE 0

\* A Stepper_Disable that leaves the step timer running.
Stepper_DisableTimerRuns(ovr_disable) ==
    [tim9 |-> tim9,
     gpio |-> [gpio EXCEPT !.step = StepPinsIdle,
                           !.enable = DisabledEnablePin(ovr_disable)],
     delay_us |-> 1,
     delay_ms |-> IF IdleLockDwell THEN settings.stepper_idle_lock_time ELSE 0]

\* Stepper_Disable(ovr_disable): what it does to the timer and the pins, and
\* the delays it performs.
Stepper_Disable(ovr_disable) ==
    [tim9 |-> [tim9 EXCEPT !.enabled = FALSE],
     gpio |-> [gpio EXCEPT !.step = StepPinsIdle,
                           !.enable = DisabledEnablePin(ovr_disable)],
     delay_us |-> 1,
     delay_ms |-> IF IdleLockDwell THEN settings.stepper_idle_lock_time ELSE 0]

\* A wake-up that leaves st.step_outbits as the last tick latched it.
Stepper_WakeUpKeepsOutbits ==
    /\ pc = "idle"
    /\ gpio' = [gpio EXCEPT
            !.enable = IF BITFLAG_INVERT_ST_ENABLE \in settings.flags THEN 1 ELSE 0]
    /\ tim9' = [tim9 EXCEPT !.enabled = TRUE, !.next = "update"]
    /\ UNCHANGED << ringv, st_block_buffer, st, prepv, maskv, sysv, planner, hist,
                    seg_blk, pool_blk, isr >>

Stepper_WakeUp ==
    /\ pc = "idle"
    /\ gpio' = [gpio EXCEPT
            !.enable = IF BITFLAG_INVERT_ST_ENABLE \in settings.flags THEN 1 ELSE 0]
    /\ st' = [st EXCEPT !.step_outbits = {}]
    /\ tim9' = [tim9 EXCEPT !.enabled = TRUE, !.next = "update"]
    /\ UNCHANGED << ringv, st_block_buffer, prepv, maskv, sysv, planner, hist,
                    seg_blk, pool_blk, isr >>

Stepper_PortResetISR ==
    /\ tim9.enabled
    /\ tim9.next = "compare"
    /\ gpio' = [gpio EXCEPT !.step = StepPinsIdle]
    /\ tim9' = [tim9 EXCEPT !.next = "update"]
    /\ UNCHANGED << ringv, st_block_buffer, st, prepv, maskv, sysv, planner, ghostv >>

\* Stepper_GenerateStepDirInvertMasks: the pin mask of axis idx is bit idx.
GenStepInvertMask == {idx \in Axes : idx \in settings.step_invert_mask}
GenDirInvertMask == {idx \in Axes : idx \in settings.dir_invert_mask}

\* A block still in flight when the stepper is reset never completes.
AbortInFlight(h) ==
    [b \in BlockIds |->
        IF \/ b <= planner.issued /\ ~(h[b].carved /\ h[b].enq = h[b].deq)
           \/ b = isr.blk /\ st.step_outbits /= {}
        THEN [h[b] EXCEPT !.aborted = TRUE] ELSE h[b]]

\* Stepper_Reset, called by the main program together with the planner's
\* reset (the planner queue is emptied).
Stepper_Reset ==
    /\ pc = "idle"
    /\ LET d == Stepper_Disable(FALSE)
       IN  /\ tim9' = d.tim9
           /\ gpio' = [d.gpio EXCEPT !.step = [a \in Axes |-> 0],
                                     !.dir = [a \in Axes |-> 0]]
    /\ prep' = ZeroPrep
    /\ st' = [ZeroSt EXCEPT !.dir_outbits = GenDirInvertMask]
    /\ pl_block' = NULL
    /\ segment_buffer_tail' = 0
    /\ segment_buffer_head' = 0
    /\ segment_next_head' = 1
    /\ step_port_invert_mask' = GenStepInvertMask
    /\ dir_port_invert_mask' = GenDirInvertMask
    /\ planner' = [planner EXCEPT !.queue = << >>, !.sys_block = NULL]
    /\ hist' = AbortInFlight(hist)
    /\ seg_blk' = [s \in Slots |-> 0]
    /\ isr' = NoIsr
    /\ UNCHANGED << segment_buffer, st_block_buffer, st_prep_block, pc, loc, sysv,
                    pool_blk >>

\* Stepper_UpdatePlannerBlockParams: the values it leaves in prep, the planner
\* block and pl_block.
\* An update that flags the recalculation but keeps the block pointer.
UpdateKeepsBlock ==
    IF pl_block /= NULL
    THEN [prep |-> [prep EXCEPT !.recalculate_flag = @ \cup {PREP_FLAG_RECALCULATE}],
          planner |-> PlannerWithBlock(planner, pl_block,
                [PlannerBlockAt(planner, pl_block) EXCEPT
                    !.entry_speed_sqr = prep.current_speed * prep.current_speed]),
          pl_block |-> pl_block]
    ELSE [prep |-> prep, planner |-> planner, pl_block |-> pl_block]

UpdatePlannerBlockParams ==
    IF pl_block /= NULL
    THEN [prep |-> [prep EXCEPT !.recalculate_flag = @ \cup {PREP_FLAG_RECALCULATE}],
          planner |-> PlannerWithBlock(planner, pl_block,
                [PlannerBlockAt(planner, pl_block) EXCEPT
                    !.entry_speed_sqr = prep.current_speed * prep.current_speed]),
          pl_block |-> NULL]
    ELSE [prep |-> prep, planner |-> planner, pl_block |-> pl_block]

\* The planner queues a block (main program, outside the preparer).  A
\* block queued onto an empty planner starts from rest; one queued behind
\* the executing block makes the planner re-plan, which calls
\* Stepper_UpdatePlannerBlockParams.
Planner_BufferLine ==
    /\ pc = "idle"
    /\ NextBlockId \in BlockIds
    /\ NextBlockId <= Len(Programs[planner.program])
    /\ Len(planner.queue) < MaxQueue
    /\ LET t == ProgramBlock(planner.program, NextBlockId)
           b == [t EXCEPT !.entry_speed_sqr = IF planner.queue = << >> THEN 0 ELSE @]
           u == UpdatePlannerBlockParams
       IN  /\ planner' = [u.planner EXCEPT
                  !.queue = Append(@, [id |-> NextBlockId] @@ b),
                  !.issued = NextBlockId]
           /\ prep' = u.prep
           /\ pl_block' = u.pl_block
           /\ hist' = [hist EXCEPT ![NextBlockId] =
                  [ZeroHist EXCEPT !.steps = t.steps,
                                   !.step_event_count = t.step_event_count,
                                   !.direction_bits = t.direction_bits,
                                   !.backlash_motion = t.backlash_motion]]
    /\ UNCHANGED << ringv, st_block_buffer, st, st_prep_block, pc, loc, maskv, sysv,
                    hwv, seg_blk, pool_blk, isr, used >>

\* A block pool of a single entry: the index never moves on.
SameBlockIndex(block_index) == block_index

\* A pool whose every block is loaded into entry 0.
FirstBlockIndex(block_index) == 0

\* Stepper.c:721-730: the pool index after block_index.
Stepper_NextBlockIndex(block_index) ==
    IF U8(block_index + 1) = SEGMENT_BUFFER_SIZE - 1 THEN 0 ELSE U8(block_index + 1)

\* ------------------------------------------------------------------------
\* Stepper_MainISR
\* ------------------------------------------------------------------------
\* What a read through a null exec_block may return.
GarbageBlocks ==
    { ZeroBlock,
      [steps |-> Steps3(8, 8, 8), step_event_count |-> 8, direction_bits |-> {0},
       is_pwm_rate_adjusted |-> TRUE] }

\* An ISR entry that raises no pin.
NoEdge(step_pins) == step_pins

\* Stepper.c:337-390: the rising edge of every step bit latched last tick.
RisingEdge(step_pins) ==
    [a \in Axes |->
        IF a \in st.step_outbits
        THEN (IF a \in step_port_invert_mask THEN 0 ELSE 1)
        ELSE step_pins[a]]

\* History: the pulses Stepper.c:337-390 latches belong to the block whose
\* tick set st.step_outbits.
Latched(h) ==
    IF isr.blk \in BlockIds
    THEN [h EXCEPT ![isr.blk].emitted =
                [a \in Axes |-> @[a] + (IF a \in st.step_outbits THEN 1 ELSE 0)]]
    ELSE h

\* An idle path that shuts the stepper down without flagging the end of the
\* cycle.
ISR_IdleNoCycleStop(garbage) ==
    LET d == Stepper_Disable(FALSE)
        blk == IF st.exec_block = NULL THEN garbage
               ELSE st_block_buffer[Deref(st.exec_block)]
    IN  /\ tim9' = d.tim9
        /\ gpio' = [d.gpio EXCEPT
                !.spindle = IF blk.is_pwm_rate_adjusted THEN SPINDLE_PWM_OFF_VALUE ELSE @]
        /\ isr' = [path |-> "idle", delay_us |-> d.delay_us, delay_ms |-> d.delay_ms,
                   blk |-> 0, probe |-> FALSE]
        /\ hist' = Latched(hist)
        /\ UNCHANGED << ringv, st_block_buffer, st, prepv, maskv, sysv, planner,
                        seg_blk, pool_blk, used >>

\* Stepper.c:487-498: the segment buffer is empty.
ISR_Idle(garbage) ==
    LET d == Stepper_Disable(FALSE)
        blk == IF st.exec_block = NULL THEN garbage
               ELSE st_block_buffer[Deref(st.exec_block)]
    IN  /\ tim9' = d.tim9
        /\ gpio' = [d.gpio EXCEPT
                !.spindle = IF blk.is_pwm_rate_adjusted THEN SPINDLE_PWM_OFF_VALUE ELSE @]
        /\ sys_rt_exec_state' = sys_rt_exec_state \cup {EXEC_CYCLE_STOP}
        /\ isr' = [path |-> "idle", delay_us |-> d.delay_us, delay_ms |-> d.delay_ms,
                   blk |-> 0, probe |-> FALSE]
        /\ hist' = Latched(hist)
        /\ UNCHANGED << ringv, st_block_buffer, st, prepv, maskv, sys, sys_position,
                        settings, planner, seg_blk, pool_blk, used >>

\* A Bresenham counter that steps as soon as it reaches step_event_count,
\* not only once it has passed it.
BresenhamAtOrAbove(counter, steps, step_event_count) ==
    LET c == U32(counter + steps)
    IN  IF c >= step_event_count
        THEN [counter |-> U32(c - step_event_count), step |-> TRUE]
        ELSE [counter |-> c, step |-> FALSE]

\* A Bresenham counter that keeps its overflow: without the subtraction of
\* step_event_count an axis steps on every tick after its first step.
BresenhamNoCarry(counter, steps, step_event_count) ==
    LET c == U32(counter + steps)
    IN  [counter |-> c, step |-> c > step_event_count]

\* One Bresenham counter (Stepper.c:511-529): the counter after the tick and
\* whether the axis steps.
Bresenham(counter, steps, step_event_count) ==
    LET c == U32(counter + steps)
    IN  IF c > step_event_count
        THEN [counter |-> U32(c - step_event_count), step |-> TRUE]
        ELSE [counter |-> c, step |-> FALSE]

\* An ISR that runs a segment at whatever period the preparer computed.
NoLimit(cycles_per_tick) == cycles_per_tick

\* Stepper.c:401-403: the step period the ISR runs a loaded segment at.
LimitCycles(cycles_per_tick) ==
    IF cycles_per_tick < STEP_TIMER_MIN THEN STEP_TIMER_MIN ELSE cycles_per_tick

\* Stepper.c:419: direction pins are the block's direction bits, inverted
\* where the mask says so.
DirOutbits(direction_bits) ==
    (direction_bits \ dir_port_invert_mask) \cup (dir_port_invert_mask \ direction_bits)

\* A position count that takes the steps of a backlash move too.
PositionDeltaCountsBacklash(direction_bits, backlash_motion, stepped) ==
    [a \in Axes |->
        IF a \in stepped
        THEN (IF a \in direction_bits THEN -1 ELSE 1)
        ELSE 0]

\* A position count that follows the direction pins instead of the block's
\* direction bits.
PositionDeltaByPins(direction_bits, backlash_motion, stepped) ==
    [a \in Axes |->
        IF a \in stepped /\ backlash_motion = 0
        THEN (IF a \in DirOutbits(direction_bits) THEN -1 ELSE 1)
        ELSE 0]

\* Stepper.c:518-525, 542-550, 559-567: what a tick adds to sys_position,
\* given the axes that step.
PositionDelta(direction_bits, backlash_motion, stepped) ==
    [a \in Axes |->
        IF a \in stepped /\ backlash_motion = 0
        THEN (IF a \in direction_bits THEN -1 ELSE 1)
        ELSE 0]

\* Whether the ISR re-points exec_block at a segment's block (Stepper.c:411).
StartsNewBlock(seg) == st.exec_block_index /= seg.st_block_index

\* A segment taken for complete one tick before its step count runs out.
SegmentDoneEarly(step_count) == U16(step_count - 1) <= 1

\* Whether a segment is complete after a tick (Stepper.c:575-576).
SegmentDone(step_count) == U16(step_count - 1) = 0

\* Step bits that pass whatever the homing axis lock says.
NoHomingLock(stepped) == stepped

\* Stepper.c:570-573: during a homing cycle the step bits of the axes
\* locked out are dropped.
HomingLock(stepped) ==
    IF sys.state = STATE_HOMING THEN stepped \cap sys.homing_axis_lock ELSE stepped

\* Stepper.c:392-486 and 502-583: load a segment if none is executing, then
\* one Bresenham tick.
ISR_Run(garbage) ==
    LET load == st.exec_segment = NULL
        slot == IF load THEN segment_buffer_tail ELSE Deref(st.exec_segment)
        seg0 == segment_buffer[slot]
        seg == IF load THEN [seg0 EXCEPT !.cycles_per_tick = LimitCycles(@)] ELSE seg0
        newblk == load /\ StartsNewBlock(seg)
        exec_block == IF newblk THEN Ptr(seg.st_block_index) ELSE st.exec_block
        blk == IF exec_block = NULL THEN garbage
               ELSE st_block_buffer[Deref(exec_block)]
        counter0 == IF newblk
                    THEN [a \in Axes |-> Shr(blk.step_event_count, 1)]
                    ELSE st.counter
        dir_outbits == IF load THEN DirOutbits(blk.direction_bits) ELSE st.dir_outbits
        steps == IF load
                 THEN [a \in Axes |-> Shr(blk.steps[a], seg.amass_level)]
                 ELSE st.steps
        step_count0 == IF load THEN seg.n_step ELSE st.step_count
        br == [a \in Axes |-> Bresenham(counter0[a], steps[a], blk.step_event_count)]
        stepped == {a \in Axes : br[a].step}
        outbits == HomingLock(stepped)
        delta == PositionDelta(blk.direction_bits, seg.backlash_motion, stepped)
        step_count == U16(step_count0 - 1)
        done == SegmentDone(step_count0)
        b == seg_blk[slot]
    IN  /\ segment_buffer' = [segment_buffer EXCEPT ![slot] = seg]
        /\ tim9' = IF load
                   THEN [tim9 EXCEPT !.ARR = seg.cycles_per_tick,
                                     !.CCR1 = U16((seg.cycles_per_tick * 3) \div 4),
                                     !.next = "compare"]
                   ELSE [tim9 EXCEPT !.next = "compare"]
        /\ gpio' = [gpio EXCEPT
                !.step = RisingEdge(gpio.step),
                !.dir = IF load THEN [a \in Axes |-> IF a \in dir_outbits THEN 1 ELSE 0]
                        ELSE @,
                !.spindle = IF load THEN seg.spindle_pwm ELSE @]
        /\ st' = [st EXCEPT
                !.exec_segment = IF done THEN NULL ELSE Ptr(slot),
                !.exec_block_index = IF newblk THEN seg.st_block_index ELSE @,
                !.exec_block = exec_block,
                !.counter = [a \in Axes |-> br[a].counter],
                !.dir_outbits = dir_outbits,
                !.steps = steps,
                !.step_outbits = outbits,
                !.step_count = step_count]
        /\ sys_position' = [a \in Axes |-> sys_position[a] + delta[a]]
        /\ segment_buffer_tail' =
                IF done
                THEN (IF segment_buffer_tail + 1 = SEGMENT_BUFFER_SIZE THEN 0
                      ELSE segment_buffer_tail + 1)
                ELSE segment_buffer_tail
        /\ hist' = [Latched(hist) EXCEPT
                        ![b].posd = [a \in Axes |-> @[a] + delta[a]],
                        ![b].deq = IF done THEN @ + 1 ELSE @]
        /\ isr' = [path |-> IF load THEN "load" ELSE "tick", delay_us |-> 0, delay_ms |-> 0,
                   blk |-> b, probe |-> TRUE]
        /\ seg_blk' = IF done THEN [seg_blk EXCEPT ![slot] = 0] ELSE seg_blk
        /\ UNCHANGED << segment_buffer_head, segment_next_head, st_block_buffer, prepv,
                        maskv, sys, sys_rt_exec_state, settings, planner, pool_blk,
                        used >>

Stepper_MainISR ==
    /\ tim9.enabled
    /\ tim9.next = "update"
    /\ \E garbage \in (IF st.exec_block = NULL THEN GarbageBlocks ELSE {ZeroBlock}) :
         IF st.exec_segment = NULL /\ segment_buffer_head = segment_buffer_tail
         THEN ISR_Idle(garbage)
         ELSE ISR_Run(garbage)

\* ------------------------------------------------------------------------
\* Stepper_PrepareBuffer: block load and velocity profile
\* ------------------------------------------------------------------------
\* inv_2_accel * x, with inv_2_accel = 0.5/acceleration (Stepper.c:878)
Inv2Accel(b, x) == FDiv(x, 2 * b.acceleration)

\* Stepper.c:823-868: load the Bresenham data of a new planner block b.
\* Yields the pool entry, the prep data and the planner block afterwards.
LoadBlock(p, b, step_control) ==
    LET idx == Stepper_NextBlockIndex(p.st_block_index)
        mid_hold == \/ STEP_CONTROL_EXECUTE_HOLD \in step_control
                    \/ PREP_FLAG_DECEL_OVERRIDE \in p.recalculate_flag
        laser == /\ BITFLAG_LASER_MODE \in settings.flags
                 /\ PL_COND_FLAG_SPINDLE_CCW \in b.condition
        spm == Frac(b.step_event_count, b.millimeters)
    IN  [idx |-> idx,
         entry |-> [direction_bits |-> b.direction_bits,
                    steps |-> [a \in Axes |-> U32(Shl(b.steps[a], MAX_AMASS_LEVEL))],
                    step_event_count |-> U32(Shl(b.step_event_count, MAX_AMASS_LEVEL)),
                    is_pwm_rate_adjusted |-> laser],
         prep |-> [p EXCEPT
                    !.st_block_index = idx,
                    !.steps_remaining = b.step_event_count,
                    !.step_per_mm = spm,
                    !.req_mm_increment = FDiv(5 * spm.d, 4 * spm.n),
                    !.dt_remainder = 0,
                    !.current_speed = IF mid_hold THEN p.exit_speed
                                      ELSE Sqrt(b.entry_speed_sqr),
                    !.recalculate_flag = IF mid_hold THEN @ \ {PREP_FLAG_DECEL_OVERRIDE}
                                         ELSE @,
                    !.inv_rate = IF laser THEN Frac(1, b.programmed_rate) ELSE @],
         block |-> IF mid_hold
                   THEN [b EXCEPT !.entry_speed_sqr = p.exit_speed * p.exit_speed]
                   ELSE b]

\* Stepper.c:880-895: the profile of a feed hold in progress.
HoldProfile(p, b) ==
    LET decel_dist == b.millimeters - Inv2Accel(b, b.entry_speed_sqr)
    IN  IF decel_dist < 0
        THEN [p EXCEPT !.mm_complete = 0, !.ramp_type = RAMP_DECEL,
                       !.exit_speed = Sqrt(b.entry_speed_sqr
                                           - 2 * b.acceleration * b.millimeters)]
        ELSE [p EXCEPT !.mm_complete = decel_dist, !.ramp_type = RAMP_DECEL,
                       !.exit_speed = 0]

\* Stepper.c:896-970: the profile in normal operation.
NormalProfile(p, b, step_control) ==
    LET exit_speed_sqr == IF STEP_CONTROL_EXECUTE_SYS_MOTION \in step_control THEN 0
                          ELSE Planner_GetExecBlockExitSpeedSqr
        exit_speed == Sqrt(exit_speed_sqr)
        nominal_speed == Planner_ComputeProfileNominalSpeed(b)
        nominal_speed_sqr == nominal_speed * nominal_speed
        intersect_distance ==
            (b.millimeters + Inv2Accel(b, b.entry_speed_sqr - exit_speed_sqr)) \div 2
        p0 == [p EXCEPT !.mm_complete = 0, !.ramp_type = RAMP_ACCEL,
                        !.accelerate_until = b.millimeters, !.exit_speed = exit_speed]
        decel_after == Inv2Accel(b, nominal_speed_sqr - exit_speed_sqr)
    IN  IF b.entry_speed_sqr > nominal_speed_sqr
        THEN LET until == b.millimeters
                          - Inv2Accel(b, b.entry_speed_sqr - nominal_speed_sqr)
             IN  IF until <= 0
                 THEN [p0 EXCEPT
                        !.accelerate_until = until,
                        !.ramp_type = RAMP_DECEL,
                        !.exit_speed = Sqrt(b.entry_speed_sqr
                                            - 2 * b.acceleration * b.millimeters),
                        !.recalculate_flag = @ \cup {PREP_FLAG_DECEL_OVERRIDE}]
                 ELSE [p0 EXCEPT
                        !.accelerate_until = until,
                        !.decelerate_after = decel_after,
                        !.maximum_speed = nominal_speed,
                        !.ramp_type = RAMP_DECEL_OVERRIDE]
        ELSE IF intersect_distance > 0
        THEN IF intersect_distance < b.millimeters
             THEN IF decel_after < intersect_distance
                  THEN IF b.entry_speed_sqr = nominal_speed_sqr
                       THEN [p0 EXCEPT !.decelerate_after = decel_after,
                                       !.maximum_speed = nominal_speed,
                                       !.ramp_type = RAMP_CRUISE]
                       ELSE [p0 EXCEPT !.decelerate_after = decel_after,
                                       !.maximum_speed = nominal_speed,
                                       !.accelerate_until = @ - Inv2Accel(b,
                                            nominal_speed_sqr - b.entry_speed_sqr)]
                  ELSE [p0 EXCEPT !.accelerate_until = intersect_distance,
                                  !.decelerate_after = intersect_distance,
                                  !.maximum_speed = Sqrt(2 * b.acceleration
                                        * intersect_distance + exit_speed_sqr)]
             ELSE [p0 EXCEPT !.ramp_type = RAMP_DECEL]
        ELSE [p0 EXCEPT !.accelerate_until = 0, !.maximum_speed = exit_speed]

\* Stepper.c:877-970
ComputeProfile(p, b, step_control) ==
    IF STEP_CONTROL_EXECUTE_HOLD \in step_control
    THEN HoldProfile(p, b)
    ELSE NormalProfile(p, b, step_control)

\* Stepper.c:810-821: only the profile is recomputed.
ClearRecalculate(flags) ==
    IF PREP_FLAG_PARKING \in flags THEN flags \ {PREP_FLAG_RECALCULATE} ELSE {}

\* ------------------------------------------------------------------------
\* Stepper_PrepareBuffer: carving one segment (Stepper.c:997-1103)
\* ------------------------------------------------------------------------
\* t * (v + 0.5*dv) and t * (v - 0.5*dv)
RampDistUp(t, v, dv) == (t * (2 * v + dv)) \div 2
RampDistDown(t, v, dv) == (t * (2 * v - dv)) \div 2

\* The switch on prep.ramp_type (Stepper.c:1010-1085).  c holds the loop's
\* variables: dt_max, dt, time_var, mm_remaining, ramp_type, current_speed.
RampStep(c, p, b) ==
    LET speed_var == b.acceleration * c.time_var
    IN  CASE c.ramp_type = RAMP_DECEL_OVERRIDE ->
             LET mm_var == RampDistDown(c.time_var, c.current_speed, speed_var)
                 mm == c.mm_remaining - mm_var
             IN  IF mm < p.accelerate_until \/ mm_var <= 0
                 THEN [c EXCEPT
                        !.mm_remaining = p.accelerate_until,
                        !.time_var = FDiv(2 * (b.millimeters - p.accelerate_until),
                                          c.current_speed + p.maximum_speed),
                        !.nan = @ \/ (c.current_speed + p.maximum_speed = 0),
                        !.ramp_type = RAMP_CRUISE,
                        !.current_speed = p.maximum_speed]
                 ELSE [c EXCEPT !.mm_remaining = mm,
                                !.current_speed = @ - speed_var]
          [] c.ramp_type = RAMP_ACCEL ->
             LET mm == c.mm_remaining - RampDistUp(c.time_var, c.current_speed, speed_var)
             IN  IF mm < p.accelerate_until
                 THEN [c EXCEPT
                        !.mm_remaining = p.accelerate_until,
                        !.time_var = FDiv(2 * (b.millimeters - p.accelerate_until),
                                          c.current_speed + p.maximum_speed),
                        !.nan = @ \/ (c.current_speed + p.maximum_speed = 0),
                        !.ramp_type = IF p.accelerate_until = p.decelerate_after
                                      THEN RAMP_DECEL ELSE RAMP_CRUISE,
                        !.current_speed = p.maximum_speed]
                 ELSE [c EXCEPT !.mm_remaining = mm,
                                !.current_speed = @ + speed_var]
          [] c.ramp_type = RAMP_CRUISE ->
             LET mm_var == c.mm_remaining - p.maximum_speed * c.time_var
             IN  IF mm_var < p.decelerate_after
                 THEN [c EXCEPT
                        !.time_var = FDiv(c.mm_remaining - p.decelerate_after,
                                          p.maximum_speed),
                        !.nan = @ \/ (p.maximum_speed = 0),
                        !.mm_remaining = p.decelerate_after,
                        !.ramp_type = RAMP_DECEL]
                 ELSE [c EXCEPT !.mm_remaining = mm_var]
          [] OTHER ->
             LET mm_var == c.mm_remaining
                           - RampDistDown(c.time_var, c.current_speed, speed_var)
             IN  IF c.current_speed > speed_var /\ mm_var > p.mm_complete
                 THEN [c EXCEPT !.mm_remaining = mm_var,
                                !.current_speed = @ - speed_var]
                 ELSE [c EXCEPT
                        !.time_var = FDiv(2 * (c.mm_remaining - p.mm_complete),
                                          c.current_speed + p.exit_speed),
                        !.nan = @ \/ (c.current_speed + p.exit_speed = 0),
                        !.mm_remaining = p.mm_complete,
                        !.current_speed = p.exit_speed]

\* The do-while loop (Stepper.c:1009-1103).
RECURSIVE CarveLoop(_, _, _, _)
CarveLoop(c, p, b, minimum_mm) ==
    LET r == RampStep(c, p, b)
        dt == r.dt + r.time_var
    IN  IF dt < r.dt_max
        THEN LET n == [r EXCEPT !.dt = dt, !.time_var = r.dt_max - dt]
             IN  IF n.mm_remaining > p.mm_complete
                 THEN CarveLoop(n, p, b, minimum_mm) ELSE n
        ELSE IF r.mm_remaining > minimum_mm
        THEN LET n == [r EXCEPT !.dt = dt, !.dt_max = @ + DT_SEGMENT,
                                !.time_var = (r.dt_max + DT_SEGMENT) - dt]
             IN  IF n.mm_remaining > p.mm_complete
                 THEN CarveLoop(n, p, b, minimum_mm) ELSE n
        ELSE [r EXCEPT !.dt = dt]

\* Stepper.c:997-1103: the segment's end point, duration and ramp state.
CarveSegment(p, b) ==
    CarveLoop([dt_max |-> DT_SEGMENT, dt |-> 0, time_var |-> DT_SEGMENT,
               mm_remaining |-> b.millimeters, ramp_type |-> p.ramp_type,
               current_speed |-> p.current_speed, nan |-> FALSE],
              p, b, Max(b.millimeters - p.req_mm_increment, 0))

\* Spindle_ComputePwmValue (SpindleControl.c is not part of the sources):
\* an 8-bit value, off for no speed.
Spindle_ComputePwmValue(rpm) ==
    IF rpm <= 0 THEN SPINDLE_PWM_OFF_VALUE ELSE Min(rpm, 255)

\* Stepper.c:1109-1128: the spindle PWM of the segment being prepared.
SegmentPwm(p, b, step_control) ==
    LET adjusted == /\ st_prep_block /= NULL
                    /\ st_block_buffer[Deref(st_prep_block)].is_pwm_rate_adjusted
    IN  IF adjusted \/ STEP_CONTROL_UPDATE_SPINDLE_PWM \in step_control
        THEN IF b.condition \cap {PL_COND_FLAG_SPINDLE_CW, PL_COND_FLAG_SPINDLE_CCW} /= {}
             THEN Spindle_ComputePwmValue(
                    IF adjusted
                    THEN FDiv(b.spindle_speed * p.current_speed * p.inv_rate.n,
                              p.inv_rate.d)
                    ELSE b.spindle_speed)
             ELSE SPINDLE_PWM_OFF_VALUE
        ELSE p.current_spindle_pwm

\* AMASS levels whose cutoff periods are half as long: every level starts
\* at twice its cutoff frequency.
AmassLevelEager(cycles) ==
    IF cycles < AMASS_LEVEL1 \div 2 THEN 0
    ELSE IF cycles < AMASS_LEVEL2 \div 2 THEN 1
    ELSE IF cycles < AMASS_LEVEL3 \div 2 THEN 2
    ELSE 3

\* Stepper.c:1180-1192: the AMASS level of a step period in cycles.
AmassLevel(cycles) ==
    IF cycles < AMASS_LEVEL1 THEN 0
    ELSE IF cycles < AMASS_LEVEL2 THEN 1
    ELSE IF cycles < AMASS_LEVEL3 THEN 2
    ELSE 3

\* Stepper.c:1198-1205: the 16-bit timer reload value.
CyclesPerTick(cycles) == IF cycles < 65536 THEN cycles ELSE 65535

\* ------------------------------------------------------------------------
\* Stepper_PrepareBuffer: the steps of one call
\* ------------------------------------------------------------------------
PlBlock == PlannerBlockAt(planner, pl_block)

\* A call that goes to the loop whatever sys.step_control holds.
Prep_EnterNoGuard ==
    /\ pc = "idle"
    /\ pc' = "while"
    /\ UNCHANGED << ringv, st_block_buffer, st, prep, pl_block, st_prep_block, loc,
                    maskv, sysv, hwv, planner, ghostv >>

\* Stepper.c:786-791: the call, and its entry guard.
Prep_Enter ==
    /\ pc = "idle"
    /\ pc' = IF STEP_CONTROL_END_MOTION \in sys.step_control THEN "idle" ELSE "while"
    /\ UNCHANGED << ringv, st_block_buffer, st, prep, pl_block, st_prep_block, loc,
                    maskv, sysv, hwv, planner, ghostv >>

\* A preparer that takes the slot at head to be free whatever the tail is.
AlwaysRoom == TRUE

\* Stepper.c:793: is a slot free?
RingHasRoom == segment_buffer_tail /= segment_next_head

Prep_While ==
    /\ pc = "while"
    /\ pc' = IF RingHasRoom THEN "acquire" ELSE "idle"
    /\ UNCHANGED << ringv, st_block_buffer, st, prep, pl_block, st_prep_block, loc,
                    maskv, sysv, hwv, planner, ghostv >>

\* Stepper.c:795-973: with no block held, fetch one from the planner, load
\* or recompute it, and compute its velocity profile.
Prep_Acquire ==
    /\ pc = "acquire"
    /\ IF pl_block /= NULL
       THEN /\ pc' = "init"
            /\ UNCHANGED << prep, pl_block, st_prep_block, st_block_buffer, planner,
                            sys, pool_blk >>
       ELSE LET q == IF STEP_CONTROL_EXECUTE_SYS_MOTION \in sys.step_control
                     THEN Planner_GetSystemMotionBlock
                     ELSE Planner_GetCurrentBlock
            IN  IF q = NULL
                THEN /\ pc' = "idle"
                     /\ UNCHANGED << prep, pl_block, st_prep_block, st_block_buffer,
                                     planner, sys, pool_blk >>
                ELSE LET b0 == PlannerBlockAt(planner, q)
                         recalc == PREP_FLAG_RECALCULATE \in prep.recalculate_flag
                         ld == LoadBlock(prep, b0, sys.step_control)
                         p1 == IF recalc
                               THEN [prep EXCEPT
                                      !.recalculate_flag = ClearRecalculate(@)]
                               ELSE ld.prep
                         b1 == IF recalc THEN b0 ELSE ld.block
                     IN  /\ pl_block' = q
                         /\ prep' = ComputeProfile(p1, b1, sys.step_control)
                         /\ planner' = PlannerWithBlock(planner, q, b1)
                         /\ st_prep_block' = IF recalc THEN st_prep_block
                                             ELSE Ptr(ld.idx)
                         /\ st_block_buffer' =
                                IF recalc THEN st_block_buffer
                                ELSE [st_block_buffer EXCEPT ![ld.idx] = ld.entry]
                         /\ pool_blk' = IF recalc THEN pool_blk
                                        ELSE [pool_blk EXCEPT ![ld.idx] = b0.id]
                         /\ sys' = [sys EXCEPT !.step_control =
                                        @ \cup {STEP_CONTROL_UPDATE_SPINDLE_PWM}]
                         /\ pc' = "init"
    /\ UNCHANGED << ringv, st, loc, maskv, sys_rt_exec_state, sys_position, settings,
                    hwv, hist, seg_blk, isr, used >>

\* History: what the preparer and the planner block hold when a call starts
\* on a segment.
AtEntry ==
    [millimeters |-> PlBlock.millimeters, pl_block |-> pl_block,
     steps_remaining |-> prep.steps_remaining, dt_remainder |-> prep.dt_remainder,
     current_speed |-> prep.current_speed, ramp_type |-> prep.ramp_type]

\* A preparer that fills the slot at segment_next_head.
Prep_InitAtNextHead ==
    /\ pc = "init"
    /\ loc' = [ZeroLoc EXCEPT !.prep_segment = segment_next_head,
                              !.at_entry = << AtEntry >>]
    /\ segment_buffer' = [segment_buffer EXCEPT
            ![segment_next_head].st_block_index = prep.st_block_index,
            ![segment_next_head].backlash_motion = PlBlock.backlash_motion]
    /\ seg_blk' = [seg_blk EXCEPT ![segment_next_head] = PlBlock.id]
    /\ pc' = "carve"
    /\ UNCHANGED << segment_buffer_tail, segment_buffer_head, segment_next_head,
                    st_block_buffer, st, prep, pl_block, st_prep_block, maskv, sysv,
                    hwv, planner, hist, pool_blk, isr, used >>

\* Stepper.c:975-981: point prep_segment at the slot at head and tie it to
\* the stepper block.
Prep_Init ==
    /\ pc = "init"
    /\ loc' = [ZeroLoc EXCEPT !.prep_segment = segment_buffer_head,
                              !.at_entry = << AtEntry >>]
    /\ segment_buffer' = [segment_buffer EXCEPT
            ![segment_buffer_head].st_block_index = prep.st_block_index,
            ![segment_buffer_head].backlash_motion = PlBlock.backlash_motion]
    /\ seg_blk' = [seg_blk EXCEPT ![segment_buffer_head] = PlBlock.id]
    /\ pc' = "carve"
    /\ UNCHANGED << segment_buffer_tail, segment_buffer_head, segment_next_head,
                    st_block_buffer, st, prep, pl_block, st_prep_block, maskv, sysv,
                    hwv, planner, hist, pool_blk, isr, used >>

\* A carve that rewinds the ramp to the acceleration once the deceleration
\* has been reached.
Prep_CarveRewindsRamp ==
    /\ pc = "carve"
    /\ LET c == CarveSegment(prep, PlBlock)
       IN  /\ loc' = [loc EXCEPT !.dt = c.dt, !.mm_remaining = c.mm_remaining,
                                 !.nan = c.nan]
           /\ prep' = [prep EXCEPT !.ramp_type = IF c.ramp_type = RAMP_DECEL
                                                 THEN RAMP_ACCEL ELSE c.ramp_type,
                                   !.current_speed = c.current_speed]
    /\ pc' = "pwm"
    /\ UNCHANGED << ringv, st_block_buffer, st, pl_block, st_prep_block, maskv, sysv,
                    hwv, planner, ghostv >>

\* Stepper.c:997-1103
Prep_Carve ==
    /\ pc = "carve"
    /\ LET c == CarveSegment(prep, PlBlock)
       IN  /\ loc' = [loc EXCEPT !.dt = c.dt, !.mm_remaining = c.mm_remaining,
                                 !.nan = c.nan]
           /\ prep' = [prep EXCEPT !.ramp_type = c.ramp_type,
                                   !.current_speed = c.current_speed]
    /\ pc' = "pwm"
    /\ UNCHANGED << ringv, st_block_buffer, st, pl_block, st_prep_block, maskv, sysv,
                    hwv, planner, ghostv >>

\* Stepper.c:1109-1130
Prep_Pwm ==
    /\ pc = "pwm"
    /\ LET pwm == SegmentPwm(prep, PlBlock, sys.step_control)
       IN  /\ prep' = [prep EXCEPT !.current_spindle_pwm = pwm]
           /\ segment_buffer' = [segment_buffer EXCEPT ![loc.prep_segment].spindle_pwm = pwm]
    /\ sys' = [sys EXCEPT !.step_control =
            IF \/ (st_prep_block /= NULL
                   /\ st_block_buffer[Deref(st_prep_block)].is_pwm_rate_adjusted)
               \/ STEP_CONTROL_UPDATE_SPINDLE_PWM \in @
            THEN @ \ {STEP_CONTROL_UPDATE_SPINDLE_PWM} ELSE @]
    /\ pc' = "nstep"
    /\ UNCHANGED << segment_buffer_tail, segment_buffer_head, segment_next_head,
                    st_block_buffer, st, pl_block, st_prep_block, loc, maskv,
                    sys_rt_exec_state, sys_position, settings, hwv, planner, ghostv >>

\* ceil(prep.step_per_mm * mm): the steps left at a distance from the end.
StepsAt(spm, mm) == CeilDiv(spm.n * mm, spm.d)

\* Stepper.c:1146: steps of the segment, as the 16-bit n_step holds them.
SegmentSteps(last_n_steps_remaining, n_steps_remaining) ==
    U16(last_n_steps_remaining - n_steps_remaining)

\* A preparer that never bails out on a segment without a step.
NeverBail(n_step, step_control) == FALSE

\* Stepper.c:1149-1150: no step to execute at the end of a feed hold.
BailOnZeroStep(n_step, step_control) ==
    n_step = 0 /\ STEP_CONTROL_EXECUTE_HOLD \in step_control

\* Stepper.c:1155-1157 and 1227-1229
KeepFlags(flags) == flags

HoldPartialFlags(flags) ==
    IF PREP_FLAG_PARKING \in flags THEN flags
    ELSE flags \cup {PREP_FLAG_HOLD_PARTIAL_BLOCK}

\* A bail-out that returns without setting STEP_CONTROL_END_MOTION.
Prep_NStepSilentBail ==
    /\ pc = "nstep"
    /\ LET n_steps_remaining == StepsAt(prep.step_per_mm, loc.mm_remaining)
           last_n_steps_remaining == prep.steps_remaining
           n_step == SegmentSteps(last_n_steps_remaining, n_steps_remaining)
       IN  /\ segment_buffer' = [segment_buffer EXCEPT ![loc.prep_segment].n_step = n_step]
           /\ IF BailOnZeroStep(n_step, sys.step_control)
              THEN /\ prep' = [prep EXCEPT !.recalculate_flag = HoldPartialFlags(@)]
                   /\ loc' = ZeroLoc
                   /\ seg_blk' = [seg_blk EXCEPT ![loc.prep_segment] = 0]
                   /\ pc' = "idle"
                   /\ UNCHANGED sys
              ELSE /\ loc' = [loc EXCEPT !.n_steps_remaining = n_steps_remaining,
                                         !.last_n_steps_remaining = last_n_steps_remaining]
                   /\ pc' = "rate"
                   /\ UNCHANGED << sys, prep, seg_blk >>
    /\ UNCHANGED << segment_buffer_tail, segment_buffer_head, segment_next_head,
                    st_block_buffer, st, pl_block, st_prep_block, maskv,
                    sys_rt_exec_state, sys_position, settings, hwv, planner, hist,
                    pool_blk, isr, used >>

\* Stepper.c:1143-1161
Prep_NStep ==
    /\ pc = "nstep"
    /\ LET n_steps_remaining == StepsAt(prep.step_per_mm, loc.mm_remaining)
           last_n_steps_remaining == prep.steps_remaining
           n_step == SegmentSteps(last_n_steps_remaining, n_steps_remaining)
       IN  /\ segment_buffer' = [segment_buffer EXCEPT ![loc.prep_segment].n_step = n_step]
           /\ IF BailOnZeroStep(n_step, sys.step_control)
              THEN /\ sys' = [sys EXCEPT !.step_control = @ \cup {STEP_CONTROL_END_MOTION}]
                   /\ prep' = [prep EXCEPT !.recalculate_flag = HoldPartialFlags(@)]
                   /\ loc' = ZeroLoc
                   /\ seg_blk' = [seg_blk EXCEPT ![loc.prep_segment] = 0]
                   /\ pc' = "idle"
              ELSE /\ loc' = [loc EXCEPT !.n_steps_remaining = n_steps_remaining,
                                         !.last_n_steps_remaining = last_n_steps_remaining]
                   /\ pc' = "rate"
                   /\ UNCHANGED << sys, prep, seg_blk >>
    /\ UNCHANGED << segment_buffer_tail, segment_buffer_head, segment_next_head,
                    st_block_buffer, st, pl_block, st_prep_block, maskv,
                    sys_rt_exec_state, sys_position, settings, hwv, planner, hist,
                    pool_blk, isr, used >>

\* What converting an infinite or not-a-number float to uint32_t may give.
InfCycles == {0, 2147483647}

\* Stepper.c:1171-1173: the adjusted inverse step rate, kept exact as the
\* segment time over the step distance travelled; the distance is in
\* 1/spm.d of a step, so the rate is n * spm.d / d cycles per step.
InvRate(dt, last_n_steps_remaining, spm, mm_remaining) ==
    Frac(dt, last_n_steps_remaining * spm.d - spm.n * mm_remaining)

\* Stepper.c:1176: timer cycles per step, rounded up.
CyclesPerStep(inv_rate, spm) == U32(CeilDiv(inv_rate.n * spm.d, inv_rate.d))

\* An AMASS shift of the timing alone, the step count left at its Bresenham
\* value.
AmassShiftTimingOnly(cycles, n_step) ==
    LET level == AmassLevel(cycles)
    IN  [amass_level |-> level,
         cycles |-> IF level = 0 THEN cycles ELSE Shr(cycles, level),
         n_step |-> n_step]

\* An AMASS shift of the step count alone, the period left as computed.
AmassShiftStepsOnly(cycles, n_step) ==
    LET level == AmassLevel(cycles)
    IN  [amass_level |-> level,
         cycles |-> cycles,
         n_step |-> IF level = 0 THEN n_step ELSE U16(Shl(n_step, level))]

\* Stepper.c:1194-1195: the AMASS shift of a segment's timing and step count,
\* the step count in the 16 bits of n_step.
AmassShift(cycles, n_step) ==
    LET level == AmassLevel(cycles)
    IN  [amass_level |-> level,
         cycles |-> IF level = 0 THEN cycles ELSE Shr(cycles, level),
         n_step |-> IF level = 0 THEN n_step ELSE U16(Shl(n_step, level))]

\* Stepper.c:1171-1205
Prep_Rate ==
    /\ pc = "rate"
    /\ LET dt == loc.dt + prep.dt_remainder
           inv_rate == InvRate(dt, loc.last_n_steps_remaining, prep.step_per_mm,
                               loc.mm_remaining)
           defined == inv_rate.d > 0 /\ ~loc.nan
       IN  \E inf \in (IF defined THEN {0} ELSE InfCycles) :
             LET cycles == IF defined THEN CyclesPerStep(inv_rate, prep.step_per_mm)
                           ELSE inf
                 a == AmassShift(cycles, segment_buffer[loc.prep_segment].n_step)
             IN  /\ segment_buffer' = [segment_buffer EXCEPT
                        ![loc.prep_segment].amass_level = a.amass_level,
                        ![loc.prep_segment].n_step = a.n_step,
                        ![loc.prep_segment].cycles_per_tick = CyclesPerTick(a.cycles)]
                 /\ loc' = [loc EXCEPT !.dt = dt, !.inv_rate = inv_rate,
                                       !.nan = ~defined, !.cycles = cycles]
    /\ pc' = "publish"
    /\ UNCHANGED << segment_buffer_tail, segment_buffer_head, segment_next_head,
                    st_block_buffer, st, prep, pl_block, st_prep_block, maskv, sysv,
                    hwv, planner, ghostv >>

\* Stepper.c:1208: the segment becomes visible to the ISR.
Prep_Publish ==
    /\ pc = "publish"
    /\ segment_buffer_head' = segment_next_head
    /\ hist' = [hist EXCEPT
            ![PlBlock.id].enq = @ + 1,
            ![PlBlock.id].enq_steps = @ + (loc.last_n_steps_remaining
                                           - loc.n_steps_remaining),
            ![PlBlock.id].levels = @ \cup {segment_buffer[loc.prep_segment].amass_level}]
    /\ pc' = "incr"
    /\ UNCHANGED << segment_buffer, segment_buffer_tail, segment_next_head,
                    st_block_buffer, st, prep, pl_block, st_prep_block, loc, maskv,
                    sysv, hwv, planner, seg_blk, pool_blk, isr, used >>

\* Stepper.c:1209: ++segment_next_head and its comparison with the size.
Prep_Incr ==
    /\ pc = "incr"
    /\ segment_next_head' = U8(segment_next_head + 1)
    /\ pc' = IF segment_next_head' = SEGMENT_BUFFER_SIZE THEN "wrap" ELSE "update"
    /\ UNCHANGED << segment_buffer, segment_buffer_tail, segment_buffer_head,
                    st_block_buffer, st, prep, pl_block, st_prep_block, loc, maskv,
                    sysv, hwv, planner, ghostv >>

\* A wrap of segment_next_head that skips slot 0.
Prep_WrapToOne ==
    /\ pc = "wrap"
    /\ segment_next_head' = 1
    /\ pc' = "update"
    /\ UNCHANGED << segment_buffer, segment_buffer_tail, segment_buffer_head,
                    st_block_buffer, st, prep, pl_block, st_prep_block, loc, maskv,
                    sysv, hwv, planner, ghostv >>

\* Stepper.c:1210
Prep_Wrap ==
    /\ pc = "wrap"
    /\ segment_next_head' = 0
    /\ pc' = "update"
    /\ UNCHANGED << segment_buffer, segment_buffer_tail, segment_buffer_head,
                    st_block_buffer, st, prep, pl_block, st_prep_block, loc, maskv,
                    sysv, hwv, planner, ghostv >>

\* Stepper.c:1216: the time of the partial step left at the segment's end.
DtRemainder(n_steps_remaining, spm, mm_remaining, inv_rate) ==
    FDiv((n_steps_remaining * spm.d - spm.n * mm_remaining) * inv_rate.n, inv_rate.d)

\* An update that leaves prep.steps_remaining at the count the block was
\* loaded with.
Prep_UpdateKeepsSteps ==
    /\ pc = "update"
    /\ planner' = PlannerWithBlock(planner, pl_block,
                        [PlBlock EXCEPT !.millimeters = loc.mm_remaining])
    /\ prep' = [prep EXCEPT
            !.dt_remainder = DtRemainder(loc.n_steps_remaining, prep.step_per_mm,
                                         loc.mm_remaining, loc.inv_rate)]
    /\ pc' = "exit"
    /\ UNCHANGED << ringv, st_block_buffer, st, pl_block, st_prep_block, loc, maskv,
                    sysv, hwv, ghostv >>

\* Stepper.c:1214-1216
Prep_Update ==
    /\ pc = "update"
    /\ planner' = PlannerWithBlock(planner, pl_block,
                        [PlBlock EXCEPT !.millimeters = loc.mm_remaining])
    /\ prep' = [prep EXCEPT
            !.steps_remaining = loc.n_steps_remaining,
            !.dt_remainder = DtRemainder(loc.n_steps_remaining, prep.step_per_mm,
                                         loc.mm_remaining, loc.inv_rate)]
    /\ pc' = "exit"
    /\ UNCHANGED << ringv, st_block_buffer, st, pl_block, st_prep_block, loc, maskv,
                    sysv, hwv, ghostv >>

\* Exit conditions that take every segment ending at mm_complete for the
\* end of the block.
ExitCaseNoHold(mm_remaining, mm_complete, step_control) ==
    IF mm_remaining = mm_complete
    THEN IF STEP_CONTROL_EXECUTE_SYS_MOTION \in step_control
         THEN "end of system motion"
         ELSE "end of block"
    ELSE "next segment"

\* Stepper.c:1219-1243: which exit a committed segment takes.
ExitCase(mm_remaining, mm_complete, step_control) ==
    IF mm_remaining = mm_complete
    THEN IF mm_remaining > 0 THEN "forced termination"
         ELSE IF STEP_CONTROL_EXECUTE_SYS_MOTION \in step_control
         THEN "end of system motion"
         ELSE "end of block"
    ELSE "next segment"

\* Stepper.c:1219-1244: the exit conditions after a segment.
Prep_Exit ==
    /\ pc = "exit"
    /\ loc' = ZeroLoc
    /\ LET exit == ExitCase(loc.mm_remaining, prep.mm_complete, sys.step_control)
       IN  CASE exit = "forced termination" ->
                 /\ sys' = [sys EXCEPT !.step_control = @ \cup {STEP_CONTROL_END_MOTION}]
                 /\ prep' = [prep EXCEPT !.recalculate_flag = HoldPartialFlags(@)]
                 /\ hist' = [hist EXCEPT ![PlBlock.id].held = TRUE]
                 /\ pc' = "idle"
                 /\ UNCHANGED << pl_block, planner >>
              [] exit = "end of system motion" ->
                 /\ sys' = [sys EXCEPT !.step_control = @ \cup {STEP_CONTROL_END_MOTION}]
                 /\ pc' = "idle"
                 /\ UNCHANGED << prep, pl_block, planner, hist >>
              [] exit = "end of block" ->
                 /\ pl_block' = NULL
                 /\ planner' = Planner_DiscardCurrentBlock(planner)
                 /\ hist' = [hist EXCEPT ![PlBlock.id].carved = TRUE,
                                         ![PlBlock.id].discarded = TRUE]
                 /\ pc' = "while"
                 /\ UNCHANGED << sys, prep >>
              [] OTHER ->
                 /\ pc' = "while"
                 /\ UNCHANGED << sys, prep, pl_block, planner, hist >>
    /\ UNCHANGED << ringv, st_block_buffer, st, st_prep_block, maskv,
                    sys_rt_exec_state, sys_position, settings, hwv,
                    seg_blk, pool_blk, isr, used >>

\* ------------------------------------------------------------------------
\* The realtime supervisor (Protocol.c and System.c are not part of the
\* sources; modelled from the supervisor contract)
\* ------------------------------------------------------------------------
\* A cycle start: the supervisor wakes the stepper up when it is stopped.
Supervisor_CycleStart ==
    /\ ~tim9.enabled
    /\ Stepper_WakeUp
    /\ UNCHANGED used

\* A reset of the machine.
Supervisor_Reset ==
    /\ used < MaxEvents
    /\ used' = used + 1
    /\ Stepper_Reset

\* A feed hold is requested: the executing block is re-planned from the
\* current speed and the preparer is told to decelerate to a stop.
Supervisor_FeedHold ==
    /\ pc = "idle"
    /\ used < MaxEvents
    /\ sys.step_control = {}
    /\ tim9.enabled
    /\ used' = used + 1
    /\ prep' = UpdatePlannerBlockParams.prep
    /\ planner' = UpdatePlannerBlockParams.planner
    /\ pl_block' = UpdatePlannerBlockParams.pl_block
    /\ sys' = [sys EXCEPT !.step_control = {STEP_CONTROL_EXECUTE_HOLD},
                          !.state = STATE_HOLD]
    /\ UNCHANGED << ringv, st_block_buffer, st, st_prep_block, pc, loc, maskv,
                    sys_rt_exec_state, sys_position, settings, hwv, hist, seg_blk,
                    pool_blk, isr >>

\* The ISR has flagged the end of the cycle: after a hold the plan is
\* re-initialised from the point of the stop; motion control is back to
\* normal operation.
Supervisor_CycleStop ==
    /\ pc = "idle"
    /\ EXEC_CYCLE_STOP \in sys_rt_exec_state
    /\ sys_rt_exec_state' = sys_rt_exec_state \ {EXEC_CYCLE_STOP}
    /\ IF STEP_CONTROL_EXECUTE_HOLD \in sys.step_control
       THEN /\ prep' = UpdatePlannerBlockParams.prep
            /\ planner' = UpdatePlannerBlockParams.planner
            /\ pl_block' = UpdatePlannerBlockParams.pl_block
       ELSE UNCHANGED << prep, planner, pl_block >>
    /\ sys' = [sys EXCEPT !.step_control = {}, !.state = STATE_IDLE]
    /\ UNCHANGED << ringv, st_block_buffer, st, st_prep_block, pc, loc, maskv,
                    sys_position, settings, hwv, ghostv >>

\* ------------------------------------------------------------------------
\* The system
\* ------------------------------------------------------------------------
\* The state after Stepper_Init and Stepper_Reset at power-up, before the
\* planner has queued a block of the part program.
PowerUp(settings_set, sys_set, programs) ==
    /\ settings \in settings_set
    /\ segment_buffer = [s \in Slots |-> ZeroSegment]
    /\ st_block_buffer = [i \in PoolIdx |-> ZeroBlock]
    /\ segment_buffer_tail = 0
    /\ segment_buffer_head = 0
    /\ segment_next_head = 1
    /\ step_port_invert_mask = GenStepInvertMask
    /\ dir_port_invert_mask = GenDirInvertMask
    /\ st = [ZeroSt EXCEPT !.dir_outbits = GenDirInvertMask]
    /\ prep = ZeroPrep
    /\ pl_block = NULL
    /\ st_prep_block = NULL
    /\ sys \in sys_set
    /\ sys_rt_exec_state = {}
    /\ sys_position = Zero3
    /\ tim9 = [enabled |-> FALSE, ARR |-> 0, CCR1 |-> 0, next |-> "update"]
    /\ gpio = [step |-> Zero3, dir |-> Zero3,
               enable |-> DisabledEnablePin(FALSE), spindle |-> 0]
    /\ \E program \in programs :
         planner = [queue |-> << >>, sys_block |-> NULL, issued |-> 0,
                    program |-> program]
    /\ pc = "idle"
    /\ loc = ZeroLoc
    /\ hist = [b \in BlockIds |-> ZeroHist]
    /\ seg_blk = [s \in Slots |-> 0]
    /\ pool_blk = [i \in PoolIdx |-> 0]
    /\ isr = NoIsr
    /\ used = 0

\* The machine idle, no alarm pending, no homing cycle.
SysIdle ==
    [state |-> STATE_IDLE, step_control |-> {}, homing_axis_lock |-> {}, alarm |-> 0]

Init == PowerUp(SettingsSet, {SysIdle}, 1 .. 3)

Next ==
    \/ Planner_BufferLine
    \/ Supervisor_CycleStart
    \/ Supervisor_Reset
    \/ Stepper_MainISR
    \/ Stepper_PortResetISR
    \/ Prep_Enter
    \/ Prep_While
    \/ Prep_Acquire
    \/ Prep_Init
    \/ Prep_Carve
    \/ Prep_Pwm
    \/ Prep_NStep
    \/ Prep_Rate
    \/ Prep_Publish
    \/ Prep_Incr
    \/ Prep_Wrap
    \/ Prep_Update
    \/ Prep_Exit
    \/ Supervisor_FeedHold
    \/ Supervisor_CycleStop

Spec == Init /\ [][Next]_vars

\* ------------------------------------------------------------------------
\* The system under other settings and system conditions
\* ------------------------------------------------------------------------
\* Settings with and without inverted step, direction and enable pins, with
\* an idle lock time and with 0xFF, which keeps the drivers enabled.
WideSettings ==
    SettingsSet \cup
    { [step_invert_mask |-> {}, dir_invert_mask |-> {}, flags |-> {},
       stepper_idle_lock_time |-> 255],
      [step_invert_mask |-> {0, 2}, dir_invert_mask |-> {1},
       flags |-> {BITFLAG_INVERT_ST_ENABLE}, stepper_idle_lock_time |-> 255],
      [step_invert_mask |-> {}, dir_invert_mask |-> {0},
       flags |-> {BITFLAG_LASER_MODE}, stepper_idle_lock_time |-> 0] }

\* The conditions the supervisor may have put the system in: idle, in a
\* homing cycle with some axes locked, asleep, or with an alarm pending.
WideSys ==
    { SysIdle,
      [SysIdle EXCEPT !.state = STATE_HOMING, !.homing_axis_lock = {0}],
      [SysIdle EXCEPT !.state = STATE_SLEEP],
      [SysIdle EXCEPT !.alarm = 1] }

\* The supervisor calls Stepper_Disable(ovr_disable) from the main program.
Supervisor_Disable(ovr_disable) ==
    /\ pc = "idle"
    /\ used < MaxEvents
    /\ used' = used + 1
    /\ tim9' = Stepper_Disable(ovr_disable).tim9
    /\ gpio' = Stepper_Disable(ovr_disable).gpio
    /\ isr' = [isr EXCEPT !.path = IF ovr_disable THEN "disable 1" ELSE "disable 0",
                          !.delay_us = Stepper_Disable(ovr_disable).delay_us,
                          !.delay_ms = Stepper_Disable(ovr_disable).delay_ms,
                          !.probe = FALSE]
    /\ UNCHANGED << ringv, st_block_buffer, st, prepv, maskv, sysv, planner, hist,
                    seg_blk, pool_blk >>

\* During a homing cycle an axis reaches its limit switch: the supervisor
\* clears the axis's bit in sys.homing_axis_lock.
Supervisor_LimitHit ==
    /\ pc = "idle"
    /\ used < MaxEvents
    /\ sys.state = STATE_HOMING
    /\ used' = used + 1
    /\ \E a \in sys.homing_axis_lock :
         sys' = [sys EXCEPT !.homing_axis_lock = @ \ {a}]
    /\ UNCHANGED << ringv, st_block_buffer, st, prepv, maskv, sys_rt_exec_state,
                    sys_position, settings, hwv, planner, hist, seg_blk, pool_blk,
                    isr >>

NextWide ==
    \/ Next
    \/ \E ovr_disable \in BOOLEAN : Supervisor_Disable(ovr_disable)
    \/ Supervisor_LimitHit

\* The part program is the one a feed hold cuts short.
SpecWide == PowerUp(WideSettings, WideSys, {3}) /\ [][NextWide]_vars

\* ------------------------------------------------------------------------
\* Parking (PARKING_ENABLE)
\* ------------------------------------------------------------------------
\* A restore that leaves the preparer at the pool entry of the parking
\* motion.
RestoreKeepsIndex ==
    IF PREP_FLAG_HOLD_PARTIAL_BLOCK \in prep.recalculate_flag
    THEN [prep |-> [prep EXCEPT
                !.steps_remaining = prep.last_steps_remaining,
                !.dt_remainder = prep.last_dt_remainder,
                !.step_per_mm = prep.last_step_per_mm,
                !.recalculate_flag = {PREP_FLAG_HOLD_PARTIAL_BLOCK,
                                      PREP_FLAG_RECALCULATE},
                !.req_mm_increment = FDiv(5 * prep.last_step_per_mm.d,
                                          4 * prep.last_step_per_mm.n)],
          st_prep_block |-> st_prep_block,
          pl_block |-> NULL]
    ELSE [prep |-> [prep EXCEPT !.recalculate_flag = {}],
          st_prep_block |-> st_prep_block,
          pl_block |-> NULL]

\* Stepper_ParkingSetupBuffer: what it leaves in prep and pl_block.
Stepper_ParkingSetupBuffer ==
    LET saved == IF PREP_FLAG_HOLD_PARTIAL_BLOCK \in prep.recalculate_flag
                 THEN [prep EXCEPT !.last_st_block_index = prep.st_block_index,
                                   !.last_steps_remaining = prep.steps_remaining,
                                   !.last_dt_remainder = prep.dt_remainder,
                                   !.last_step_per_mm = prep.step_per_mm]
                 ELSE prep
    IN  [prep |-> [saved EXCEPT !.recalculate_flag =
                        (@ \cup {PREP_FLAG_PARKING}) \ {PREP_FLAG_RECALCULATE}],
         pl_block |-> NULL]

\* Stepper_ParkingRestoreBuffer: what it leaves in prep, st_prep_block and
\* pl_block.
Stepper_ParkingRestoreBuffer ==
    IF PREP_FLAG_HOLD_PARTIAL_BLOCK \in prep.recalculate_flag
    THEN [prep |-> [prep EXCEPT
                !.st_block_index = prep.last_st_block_index,
                !.steps_remaining = prep.last_steps_remaining,
                !.dt_remainder = prep.last_dt_remainder,
                !.step_per_mm = prep.last_step_per_mm,
                !.recalculate_flag = {PREP_FLAG_HOLD_PARTIAL_BLOCK,
                                      PREP_FLAG_RECALCULATE},
                !.req_mm_increment = FDiv(5 * prep.last_step_per_mm.d,
                                          4 * prep.last_step_per_mm.n)],
          st_prep_block |-> Ptr(prep.last_st_block_index),
          pl_block |-> NULL]
    ELSE [prep |-> [prep EXCEPT !.recalculate_flag = {}],
          st_prep_block |-> st_prep_block,
          pl_block |-> NULL]

\* The parking motion: a short retract of the Z axis from rest to rest.
ParkBlock == Block(Steps3(0, 0, 2), {}, 12000, 2000, 0, 5000, 0, {}, 0)

\* The main program is inside the loop of a parking motion.
ParkingLoop == PREP_FLAG_PARKING \in prep.recalculate_flag

\* The supervisor starts a parking motion with the machine stopped, after a
\* hold is complete or from idle: it plans the motion as the system motion
\* block, sets EXECUTE_SYS_MOTION, clears END_MOTION and sets the buffer up.
\* History: the preparer's state at the setup and the block a feed hold
\* left partially executed (0 when there is none).
Supervisor_Park ==
    /\ pc = "idle"
    /\ used < MaxEvents
    /\ NextBlockId \in BlockIds
    /\ ~tim9.enabled
    /\ Occupied = {}
    /\ pl_block = NULL
    /\ EXEC_CYCLE_STOP \notin sys_rt_exec_state
    /\ ~ParkingLoop
    /\ used' = used + 1
    /\ planner' = [planner EXCEPT !.sys_block = << [id |-> NextBlockId] @@ ParkBlock >>,
                                  !.issued = NextBlockId]
    /\ sys' = [sys EXCEPT !.step_control =
                    (@ \cup {STEP_CONTROL_EXECUTE_SYS_MOTION})
                        \ {STEP_CONTROL_END_MOTION}]
    /\ prep' = Stepper_ParkingSetupBuffer.prep
    /\ pl_block' = Stepper_ParkingSetupBuffer.pl_block
    /\ hist' = [hist EXCEPT ![NextBlockId] =
            [ZeroHist EXCEPT !.steps = ParkBlock.steps,
                             !.step_event_count = ParkBlock.step_event_count,
                             !.direction_bits = ParkBlock.direction_bits,
                             !.setup = << [prep |-> prep,
                                           blk |-> IF /\ PREP_FLAG_HOLD_PARTIAL_BLOCK
                                                           \in prep.recalculate_flag
                                                      /\ planner.queue /= << >>
                                                   THEN Head(planner.queue).id
                                                   ELSE 0] >>]]
    /\ UNCHANGED << ringv, st_block_buffer, st, st_prep_block, pc, loc, maskv,
                    sys_rt_exec_state, sys_position, settings, hwv, seg_blk,
                    pool_blk, isr >>

\* The ISR has flagged the end of the parking motion: the supervisor clears
\* the step control flags, leaves the loop and restores the buffer.
Supervisor_ParkingDone ==
    /\ pc = "idle"
    /\ ParkingLoop
    /\ EXEC_CYCLE_STOP \in sys_rt_exec_state
    /\ sys_rt_exec_state' = sys_rt_exec_state \ {EXEC_CYCLE_STOP}
    /\ sys' = [sys EXCEPT !.step_control = {}]
    /\ prep' = Stepper_ParkingRestoreBuffer.prep
    /\ st_prep_block' = Stepper_ParkingRestoreBuffer.st_prep_block
    /\ pl_block' = Stepper_ParkingRestoreBuffer.pl_block
    /\ planner' = [planner EXCEPT !.sys_block = NULL]
    /\ UNCHANGED << ringv, st_block_buffer, st, pc, loc, maskv, sys_position,
                    settings, hwv, ghostv >>

\* Inside the loop of a parking motion the main program runs the preparer
\* and wakes the stepper up, nothing else.
NextPark ==
    \/ ~ParkingLoop /\ Next
    \/ /\ ParkingLoop
       /\ Next
       /\ used' = used
       /\ planner'.issued = planner.issued
       /\ sys_rt_exec_state \subseteq sys_rt_exec_state'
    \/ Supervisor_Park
    \/ Supervisor_ParkingDone

\* The part program is the one a feed hold cuts short.
SpecPark == PowerUp(SettingsSet, {SysIdle}, {3}) /\ [][NextPark]_vars

\* Parking with the part program of the even block.
SpecParkEven == PowerUp(SettingsSet, {SysIdle}, {4}) /\ [][NextPark]_vars

\* ------------------------------------------------------------------------
\* The timing of a segment as a function of its step period
\* ------------------------------------------------------------------------
\* The step periods the timing computation is applied to: every period up
\* to MaxTimingCycles, which is past the cutoff of the highest AMASS level,
\* and periods around and past the limit of the 16-bit timer.
TimingCycles ==
    (0 .. MaxTimingCycles) \cup {524280, 524287, 524288, 524296, 2147483647}

\* Stepper.c:1178-1205 applied to a step period and a step count: the
\* AMASS level, the shifted step count and the timer period stored in the
\* segment.  History: loc.cycles is the period before the shift.
Timing_Segment(cycles, n_step) ==
    LET a == AmassShift(cycles, n_step)
    IN  /\ pc = "idle"
        /\ segment_buffer' = [segment_buffer EXCEPT
                ![loc.prep_segment].amass_level = a.amass_level,
                ![loc.prep_segment].n_step = a.n_step,
                ![loc.prep_segment].cycles_per_tick = CyclesPerTick(a.cycles)]
        /\ loc' = [loc EXCEPT !.cycles = cycles]
        /\ UNCHANGED << segment_buffer_tail, segment_buffer_head, segment_next_head,
                        st_block_buffer, st, prep, pl_block, st_prep_block, pc, maskv,
                        sysv, hwv, planner, ghostv >>

NextAmass == \E cycles \in TimingCycles : \E n_step \in 1 .. 2 : Timing_Segment(cycles, n_step)

\* The timing computation over the step periods of TimingCycles.
SpecAmass == PowerUp(SettingsSet, {SysIdle}, {3}) /\ [][NextAmass]_vars

\* ------------------------------------------------------------------------
\* Properties
\* ------------------------------------------------------------------------
\* A block is complete when the preparer has carved it to its end, the ISR
\* has executed every segment of it and latched its last pulse, and no reset
\* cut it short.
Completed(b) ==
    /\ hist[b].carved
    /\ hist[b].enq > 0
    /\ hist[b].enq = hist[b].deq
    /\ ~hist[b].aborted
    /\ ~(isr.blk = b /\ st.step_outbits /= {})

\* C1: a block that is carved to completion and executed fully, with no
\* reset in between, has latched on every axis exactly the planner's
\* steps[axis] pulses, whatever the AMASS levels of its segments.
C1_StepConservation ==
    \A b \in BlockIds :
        Completed(b) => \A a \in Axes : hist[b].emitted[a] = hist[b].steps[a]

\* A block of several moving axes, complete, its segments at more than one
\* AMASS level.
C1_Witness ==
    \E b \in BlockIds :
        /\ Completed(b)
        /\ Cardinality(hist[b].levels) >= 2
        /\ Cardinality({a \in Axes : hist[b].steps[a] > 0}) >= 2

\* C2: at every point of a block's execution the pulses latched so far on
\* an axis do not exceed the planner's steps[axis], and a complete block has
\* latched exactly step_event_count pulses on its dominant axis.
C2_NoOverrun ==
    \A b \in BlockIds :
        /\ \A a \in Axes : hist[b].emitted[a] <= hist[b].steps[a]
        /\ Completed(b) =>
             \E a \in Axes : /\ hist[b].steps[a] = hist[b].step_event_count
                             /\ hist[b].emitted[a] = hist[b].step_event_count

\* A block in the middle of its execution, part of its dominant axis's
\* pulses latched, while an earlier block is complete.
C2_Witness ==
    \E b, c \in BlockIds :
        /\ Completed(c)
        /\ hist[c].step_event_count >= 2
        /\ \E a \in Axes : /\ hist[b].steps[a] = hist[b].step_event_count
                           /\ hist[b].emitted[a] > 0
                           /\ hist[b].emitted[a] < hist[b].steps[a]

RECURSIVE SumPosd(_, _)
SumPosd(a, n) == IF n = 0 THEN 0 ELSE hist[n].posd[a] + SumPosd(a, n - 1)

\* C3: a complete block has moved sys_position on every axis by +steps or
\* -steps as its direction bit says, whatever dir_port_invert_mask is, and
\* a backlash block has not moved it though its pulses are latched; the
\* ISR's ticks are all that moves sys_position.
C3_PositionTracksSteps ==
    /\ \A b \in BlockIds :
         Completed(b) =>
           \A a \in Axes :
             IF hist[b].backlash_motion = 0
             THEN hist[b].posd[a] = IF a \in hist[b].direction_bits
                                    THEN 0 - hist[b].steps[a]
                                    ELSE hist[b].steps[a]
             ELSE hist[b].posd[a] = 0 /\ hist[b].emitted[a] = hist[b].steps[a]
    /\ \A a \in Axes : sys_position[a] = SumPosd(a, MaxBlocks)

\* A complete block whose direction bit is one the pin mask inverts, and a
\* complete backlash block.
C3_Witness ==
    \E b, c \in BlockIds :
        /\ Completed(b) /\ hist[b].backlash_motion = 0
        /\ \E a \in hist[b].direction_bits \cap dir_port_invert_mask :
                hist[b].steps[a] > 0 /\ sys_position[a] < 0
        /\ Completed(c) /\ hist[c].backlash_motion /= 0
        /\ \E a \in Axes : hist[c].emitted[a] > 0

ExecSlot == IF st.exec_segment = NULL THEN {} ELSE {Deref(st.exec_segment)}

\* C5 as stated: every segment in the ring, from the moment head advances
\* past it, has cycles_per_tick >= STEP_TIMER_MIN.
C5_EnqueuedAboveMin ==
    \A s \in Occupied : segment_buffer[s].cycles_per_tick >= STEP_TIMER_MIN

\* C5: every segment the ISR has loaded has cycles_per_tick >=
\* STEP_TIMER_MIN, and so has the timer period the ISR programs from it;
\* a segment still waiting in the ring may hold a smaller value.
C5_LoadedAboveMin ==
    /\ \A s \in ExecSlot : segment_buffer[s].cycles_per_tick >= STEP_TIMER_MIN
    /\ isr.path \in {"load", "tick"} => tim9.ARR >= STEP_TIMER_MIN

\* The ISR executes a segment of the backlash move that the preparer
\* computed a period below the minimum for; it runs at the minimum.
C5_Witness ==
    /\ \E s \in ExecSlot :
         /\ segment_buffer[s].cycles_per_tick = STEP_TIMER_MIN
         /\ segment_buffer[s].backlash_motion /= 0
    /\ tim9.ARR = STEP_TIMER_MIN

\* The labels at which the preparer holds a slot it is filling.
PrepWrites == {"carve", "pwm", "nstep", "rate", "publish"}

\* C6: the slot the preparer is about to fill or is filling holds no
\* segment, is not in [tail, head) and is not the slot of the ISR's
\* exec_segment, at every point the ISR may preempt the preparer.
C6_PreparerWritesFreeSlot ==
    /\ pc = "init" =>
         /\ seg_blk[segment_buffer_head] = 0
         /\ segment_buffer_head \notin Occupied \cup ExecSlot
    /\ pc \in PrepWrites =>
         /\ loc.prep_segment = segment_buffer_head
         /\ loc.prep_segment \notin Occupied \cup ExecSlot

\* The preparer is between two writes to a slot while the ISR is in the
\* middle of the segment in the slot before it.
C6_Witness ==
    /\ pc = "rate"
    /\ st.exec_segment /= NULL
    /\ Occupied /= {}
    /\ st.step_count >= 2

\* C7 as stated: in every reachable state segment_next_head is
\* (segment_buffer_head + 1) mod SEGMENT_BUFFER_SIZE, the indices are in
\* 0 .. SEGMENT_BUFFER_SIZE-1 and the ring holds at most
\* SEGMENT_BUFFER_SIZE-1 segments.
C7_RingIndices ==
    /\ segment_next_head = (segment_buffer_head + 1) % SEGMENT_BUFFER_SIZE
    /\ {segment_buffer_tail, segment_buffer_head, segment_next_head} \subseteq Slots
    /\ Cardinality(Occupied) <= SEGMENT_BUFFER_SIZE - 1

\* The ring's invariant outside the two statements that advance
\* segment_next_head, and what holds inside them.
RingIndicesSettled ==
    /\ {segment_buffer_tail, segment_buffer_head} \subseteq Slots
    /\ Cardinality(Occupied) <= SEGMENT_BUFFER_SIZE - 1
    /\ \A s \in ExecSlot : s = segment_buffer_tail /\ s \in Occupied
    /\ CASE pc = "incr" -> segment_next_head = segment_buffer_head
         [] pc = "wrap" -> segment_next_head = SEGMENT_BUFFER_SIZE
         [] OTHER -> segment_next_head = (segment_buffer_head + 1) % SEGMENT_BUFFER_SIZE

\* A step of Stepper_Reset, and who moves the indices otherwise.
ResetStep ==
    /\ used' = used + 1
    /\ segment_buffer_tail' = 0 /\ segment_buffer_head' = 0 /\ segment_next_head' = 1

IndexOwners ==
    /\ (segment_buffer_head' /= segment_buffer_head
        \/ segment_next_head' /= segment_next_head)
         => (ResetStep \/ (pc \in {"publish", "incr", "wrap"} /\ pc' /= pc))
    /\ segment_buffer_tail' /= segment_buffer_tail
         => (ResetStep \/ (tim9.next = "update" /\ tim9'.next = "compare"
                           /\ segment_buffer_tail /= segment_buffer_head))

\* C7: except between the preparer's publication of a segment and the end
\* of its update of segment_next_head, segment_next_head is
\* (segment_buffer_head + 1) mod SEGMENT_BUFFER_SIZE; tail and head are
\* always in range, the ring holds at most SEGMENT_BUFFER_SIZE-1 segments,
\* the tail never passes the head, and outside Stepper_Reset only the
\* preparer moves head and next_head and only the ISR moves tail.
C7_RingIndicesSettled == []RingIndicesSettled /\ [][IndexOwners]_vars

\* The ring is full, the head has wrapped and the ISR is in a segment.
C7_Witness ==
    /\ pc = "idle"
    /\ Cardinality(Occupied) = SEGMENT_BUFFER_SIZE - 1
    /\ segment_buffer_head < segment_buffer_tail
    /\ st.exec_segment /= NULL

\* C8: the pool entry a segment in the ring (or in execution) refers to
\* holds the Bresenham data of the planner block the segment is carved from:
\* the preparer has not overwritten it with a later block.
C8_PoolEntryLive ==
    \A s \in Occupied \cup ExecSlot :
        LET i == segment_buffer[s].st_block_index
            b == seg_blk[s]
        IN  /\ b \in BlockIds
            /\ i \in PoolIdx
            /\ pool_blk[i] = b
            /\ st_block_buffer[i].direction_bits = hist[b].direction_bits
            /\ st_block_buffer[i].step_event_count
                    = Shl(hist[b].step_event_count, MAX_AMASS_LEVEL)
            /\ \A a \in Axes :
                 st_block_buffer[i].steps[a] = Shl(hist[b].steps[a], MAX_AMASS_LEVEL)
            /\ s \in ExecSlot => st.exec_block = Ptr(i)

\* The pool has gone round: segments of the third block and of the second
\* are in the ring together, the third in the entry the first block had.
C8_Witness ==
    \E s, t \in Occupied :
        /\ seg_blk[s] = 2 /\ seg_blk[t] = 3
        /\ segment_buffer[t].st_block_index /= segment_buffer[s].st_block_index
        /\ hist[1].enq > 0

\* The preparer's step that discards the planner's current block.
DiscardStep == pc = "exit" /\ planner'.queue /= planner.queue

\* C9: the preparer discards the planner's block only at the exit of a
\* segment that leaves the block's millimeters at exactly 0, never at a
\* forced termination (mm_complete > 0) in the middle of a block, and it
\* clears pl_block in the same step.
C9_DiscardAtZero ==
    [][/\ DiscardStep =>
            /\ planner'.queue = Tail(planner.queue)
            /\ pl_block /= NULL
            /\ PlBlock.millimeters = 0
            /\ loc.mm_remaining = 0
            /\ prep.mm_complete = 0
            /\ hist[PlBlock.id].enq > 0
            /\ pl_block' = NULL
       /\ (pc = "exit" /\ loc.mm_remaining = prep.mm_complete /\ loc.mm_remaining > 0) =>
            /\ planner' = planner
            /\ pl_block' = pl_block]_vars

\* A block that a feed hold ended mid-way, resumed later and then carved to
\* its end and discarded.
C9_Witness ==
    \E b \in BlockIds : hist[b].held /\ hist[b].discarded /\ pl_block = NULL

\* C10 as stated: no invocation of Stepper_MainISR waits, the one that
\* finds the ring empty included.
C10_IsrNeverWaits == isr.delay_us = 0 /\ isr.delay_ms = 0

\* The liveness specification.  The step timer keeps firing: an enabled
\* timer's update and compare interrupts are served.  It runs the two shorter
\* part programs: the one whose blocks run into each other and the one a
\* feed hold cuts short.
SpecLive ==
    /\ PowerUp(SettingsSet, {SysIdle}, {2, 3})
    /\ [][Next]_vars
    /\ WF_vars(Stepper_MainISR) /\ WF_vars(Stepper_PortResetISR)

\* The preparer enqueues nothing more: it is blocked by END_MOTION or the
\* planner has no block for it.
PreparerStopped ==
    \/ STEP_CONTROL_END_MOTION \in sys.step_control
    \/ pl_block = NULL /\ planner.queue = << >>

\* The ISR has drained the ring and idled the machine: timer stopped, step
\* pins idle, cycle stop flagged.
DrainedAndIdle ==
    /\ isr.path = "idle"
    /\ ~tim9.enabled
    /\ Occupied = {} /\ st.exec_segment = NULL
    /\ gpio.step = StepPinsIdle
    /\ EXEC_CYCLE_STOP \in sys_rt_exec_state

\* The main program has reset the stepper instead.
ResetInstead == isr.path = "none" /\ ~tim9.enabled /\ Occupied = {}

\* C11: once the preparer has stopped enqueuing while the step timer runs,
\* the ISR eventually consumes every segment in the ring and then idles the
\* machine, stops the timer and raises EXEC_CYCLE_STOP (unless the stepper
\* is reset first); and the tick that finds the ring empty with no segment
\* executing is the one that does so.
C11_DrainsAndStops ==
    /\ (tim9.enabled /\ PreparerStopped) ~> (DrainedAndIdle \/ ResetInstead)
    /\ [][(Stepper_MainISR /\ st.exec_segment = NULL
           /\ segment_buffer_head = segment_buffer_tail)
          => DrainedAndIdle']_vars

\* The ISR has idled the machine after draining the segments left in the
\* ring by a preparer that a feed hold stopped.
C11_Witness ==
    /\ DrainedAndIdle
    /\ STEP_CONTROL_END_MOTION \in sys.step_control
    /\ \E b \in BlockIds : hist[b].held /\ hist[b].enq = hist[b].deq /\ hist[b].deq >= 2

\* The preparer's step that ends a feed hold inside the block it holds.
HoldEndStep ==
    /\ STEP_CONTROL_EXECUTE_HOLD \in sys.step_control
    /\ STEP_CONTROL_END_MOTION \notin sys.step_control
    /\ STEP_CONTROL_END_MOTION \in sys'.step_control

DriversOff == IF BITFLAG_INVERT_ST_ENABLE \in settings.flags THEN 0 ELSE 1

\* What a call of Stepper_Disable(ovr_disable) leaves behind when the dwell
\* and the disabling of the drivers at ovr_disable = 0 go by `lock`.
DisableBy(ovr_disable, lock) ==
    Supervisor_Disable(ovr_disable) =>
        /\ ~tim9'.enabled
        /\ gpio'.step = StepPinsIdle
        /\ ~ovr_disable =>
             /\ isr'.delay_ms = IF lock THEN settings.stepper_idle_lock_time ELSE 0
             /\ gpio'.enable = IF lock THEN DriversOff ELSE 1 - DriversOff

\* C13 as stated: Stepper_Disable(0) dwells and disables the drivers if and
\* only if stepper_idle_lock_time is not 0xFF and the system is not homing.
C13_DwellIffIdleLockTime ==
    [][\A ovr_disable \in BOOLEAN : DisableBy(ovr_disable, IdleLockTimeOnly)]_vars

\* C13: Stepper_Disable stops the step timer and puts the step pins at their
\* idle levels; with ovr_disable = 0 it dwells for stepper_idle_lock_time ms
\* and disables the drivers if and only if the system is not homing and
\* stepper_idle_lock_time is not 0xFF or an alarm is pending or the system
\* sleeps; otherwise the drivers stay enabled; the enable pin's level is
\* inverted under BITFLAG_INVERT_ST_ENABLE.
C13_DwellIffLockAlarmOrSleep ==
    [][\A ovr_disable \in BOOLEAN :
          DisableBy(ovr_disable,
                    /\ \/ settings.stepper_idle_lock_time /= 255
                       \/ sys.alarm /= 0
                       \/ sys.state = STATE_SLEEP
                    /\ sys.state /= STATE_HOMING)]_vars

\* Stepper_Disable(0) with an idle lock time of 0xFF in the sleep state: it
\* has dwelt 255 ms and disabled the drivers, the enable pin inverted.
C13_Witness ==
    /\ isr.path = "disable 0"
    /\ settings.stepper_idle_lock_time = 255
    /\ sys.state = STATE_SLEEP
    /\ isr.delay_ms = 255
    /\ gpio.enable = DriversOff /\ DriversOff = 0
    /\ ~tim9.enabled

\* C14 as stated: after Stepper_Reset the step timer is stopped, the ring
\* is empty (head = tail = 0, next_head = 1), no segment is executing, no
\* planner block is held, the preparer's state and flags are zero, the
\* invert masks are those of the current settings, and every step pin is at
\* the idle level of its invert setting.
C14_ResetState ==
    [][Stepper_Reset =>
         /\ ~tim9'.enabled
         /\ segment_buffer_head' = 0 /\ segment_buffer_tail' = 0
         /\ segment_next_head' = 1
         /\ st'.exec_segment = NULL
         /\ pl_block' = NULL
         /\ prep' = ZeroPrep
         /\ step_port_invert_mask' = GenStepInvertMask
         /\ dir_port_invert_mask' = GenDirInvertMask
         /\ gpio'.step = StepPinsIdle']_vars

\* The steps of the main program that call Stepper_UpdatePlannerBlockParams
\* (from the planner's recalculation, at a feed hold, at the end of a hold).
UpdateStep ==
    \/ Planner_BufferLine
    \/ Supervisor_FeedHold
    \/ Supervisor_CycleStop /\ STEP_CONTROL_EXECUTE_HOLD \in sys.step_control

\* C15: Stepper_UpdatePlannerBlockParams with a block held sets
\* PREP_FLAG_RECALCULATE, writes prep.current_speed squared to the block's
\* entry_speed_sqr and clears pl_block; with no block held it changes
\* nothing of the preparer and of the planner's blocks; in both cases the
\* ring indices, the segment slots, the stepper block pool,
\* prep.st_block_index, prep.steps_remaining and prep.dt_remainder are
\* unchanged, and so is every other field of prep.
C15_UpdateFrame ==
    [][UpdateStep =>
         /\ IF pl_block /= NULL
            THEN /\ prep' = [prep EXCEPT
                                !.recalculate_flag = @ \cup {PREP_FLAG_RECALCULATE}]
                 /\ Head(planner'.queue)
                      = [Head(planner.queue) EXCEPT
                            !.entry_speed_sqr = prep.current_speed * prep.current_speed]
                 /\ Tail(planner'.queue) = Tail(planner.queue)
                      \/ Planner_BufferLine
                 /\ pl_block' = NULL
            ELSE /\ prep' = prep
                 /\ pl_block' = NULL
                 /\ planner' = planner \/ Planner_BufferLine
         /\ UNCHANGED << ringv, st_block_buffer >>
         /\ prep'.st_block_index = prep.st_block_index
         /\ prep'.steps_remaining = prep.steps_remaining
         /\ prep'.dt_remainder = prep.dt_remainder]_vars

\* A feed hold has updated the block the preparer held in the middle of its
\* execution: the block's entry speed is the preparer's current speed, the
\* pointer is cleared, segments of the block are in the ring.
C15_Witness ==
    /\ sys.step_control = {STEP_CONTROL_EXECUTE_HOLD}
    /\ pc = "idle"
    /\ pl_block = NULL
    /\ PREP_FLAG_RECALCULATE \in prep.recalculate_flag
    /\ planner.queue /= << >>
    /\ prep.current_speed > 0
    /\ Head(planner.queue).entry_speed_sqr = prep.current_speed * prep.current_speed
    /\ prep.steps_remaining > 0
    /\ Occupied /= {}

\* C16: with STEP_CONTROL_END_MOTION set, a call of Stepper_PrepareBuffer
\* returns at once: the preparer is never inside its loop while the flag is
\* set, whatever room the ring has, so it enqueues nothing and asks the
\* planner for nothing; and the call leaves head, next_head, pl_block, the
\* planner's blocks, the stepper block pool and prep as they were.
C16_EntryGuard ==
    /\ [](STEP_CONTROL_END_MOTION \in sys.step_control => pc = "idle")
    /\ [][(Prep_Enter /\ STEP_CONTROL_END_MOTION \in sys.step_control) =>
            UNCHANGED << pc, ringv, pl_block, planner, st_block_buffer, prep,
                         st_prep_block, hist >>]_vars

\* END_MOTION is set at the end of a feed hold, the ring has drained to
\* empty, and the block the preparer holds has distance left to carve: only
\* the entry guard keeps the preparer from enqueuing.
C16_Witness ==
    /\ STEP_CONTROL_END_MOTION \in sys.step_control
    /\ pc = "idle"
    /\ Occupied = {} /\ st.exec_segment = NULL
    /\ segment_buffer_tail /= segment_next_head
    /\ pl_block /= NULL
    /\ PlBlock.millimeters > 0
    /\ prep.steps_remaining > 0

\* The labels at which the preparer has computed the period of the segment
\* in its slot and still holds that period (cycles, before the AMASS shift).
PeriodKnown == {"publish", "incr", "wrap", "update", "exit"}

\* C17 as stated: for every enqueued segment, cycles_per_tick * 2^level is
\* the period computed for the segment before the AMASS shift, unless the
\* 16-bit clamp applied.
C17_AmassExact ==
    pc \in PeriodKnown =>
        LET seg == segment_buffer[loc.prep_segment]
        IN  \/ Shl(seg.cycles_per_tick, seg.amass_level) = loc.cycles
            \/ seg.cycles_per_tick = 65535

\* The period of a segment after the AMASS shift, clamped to 16 bits.
ShiftedPeriod(cycles, level) ==
    IF Shr(cycles, level) < 65536 THEN Shr(cycles, level) ELSE 65535

\* C17: for every enqueued segment, cycles_per_tick is the period computed
\* before the AMASS shift divided by 2^level and rounded down, so
\* cycles_per_tick * 2^level is that period less its low `level` bits
\* (at most 2^level - 1 cycles short), unless the shifted period does not
\* fit 16 bits and cycles_per_tick is clamped to 0xFFFF, or the ISR has
\* loaded the segment and raised a value below STEP_TIMER_MIN to
\* STEP_TIMER_MIN.
C17_AmassFloor ==
    pc \in PeriodKnown =>
        LET seg == segment_buffer[loc.prep_segment]
            level == seg.amass_level
            shifted == ShiftedPeriod(loc.cycles, level)
        IN  /\ level \in 0 .. MAX_AMASS_LEVEL
            /\ \/ seg.cycles_per_tick = shifted
               \/ /\ pc /= "publish"
                  /\ loc.prep_segment \in ExecSlot \/ loc.prep_segment \notin Occupied
                  /\ shifted < STEP_TIMER_MIN
                  /\ seg.cycles_per_tick = STEP_TIMER_MIN
            /\ shifted < 65535 =>
                 /\ Shl(shifted, level) <= loc.cycles
                 /\ loc.cycles < Shl(shifted + 1, level)

\* A segment just enqueued at a nonzero AMASS level whose period before the
\* shift is not a multiple of 2^level.
C17_Witness ==
    /\ pc = "incr"
    /\ LET seg == segment_buffer[loc.prep_segment]
       IN  /\ seg.amass_level >= 1
           /\ seg.cycles_per_tick < 65535
           /\ Shl(seg.cycles_per_tick, seg.amass_level) < loc.cycles

\* A tick of Stepper_MainISR that runs a segment, and the axes its
\* Bresenham counters stepped (the axes whose position count it moved; the
\* blocks of this specification are no backlash moves).
IsrTick == Stepper_MainISR /\ isr'.path \in {"load", "tick"}

SteppedAxes == {a \in Axes : sys_position'[a] /= sys_position[a]}

\* C18 as stated: while sys.state is STATE_HOMING no invocation of the ISR
\* raises a step pulse on an axis whose bit in sys.homing_axis_lock is
\* clear.
C18_NoPulseOnUnlockedAxis ==
    [][(Stepper_MainISR /\ sys.state = STATE_HOMING) =>
          \A a \in Axes \ sys.homing_axis_lock : a \notin st.step_outbits]_vars

\* C18: while sys.state is STATE_HOMING the step bits a tick latches for
\* the next tick are the stepped axes ANDed with sys.homing_axis_lock as it
\* is at that tick, and outside the homing state they are the stepped axes
\* unmasked; the pulses a tick raises are the bits the tick before
\* latched, whatever the lock has become since.
C18_MaskedAtTick ==
    [][/\ IsrTick =>
            /\ sys.state = STATE_HOMING =>
                 st'.step_outbits = SteppedAxes \cap sys.homing_axis_lock
            /\ sys.state /= STATE_HOMING => st'.step_outbits = SteppedAxes
       /\ Stepper_MainISR =>
            \A a \in Axes :
                gpio'.step[a] /= gpio.step[a] /\ gpio'.step[a] /= StepPinsIdle[a]
                    => a \in st.step_outbits]_vars

\* In a homing cycle with only X unlocked the ISR has run a block that
\* moves X and Y: Y's position count has moved with no pulse latched for
\* it, X's pulses are latched.
C18_Witness ==
    /\ sys.state = STATE_HOMING
    /\ sys.homing_axis_lock = {0}
    /\ isr.path \in {"load", "tick"}
    /\ \E b \in BlockIds :
         /\ hist[b].posd[1] /= 0 /\ hist[b].emitted[1] = 0
         /\ hist[b].posd[0] >= 2 /\ hist[b].emitted[0] >= 1

\* The step pins that are asserted (not at their idle level).
AssertedPins == {a \in Axes : gpio.step[a] /= StepPinsIdle[a]}

\* A pulse is out: the ISR has run a tick and the compare match that ends
\* the pulse has not come yet.
PulseWindow == tim9.enabled /\ tim9.next = "compare"

\* A step of the system that drops an asserted step pin.
DropsPin == \E a \in AssertedPins : a \notin AssertedPins'

AtSetup == hist[planner.sys_block[1].id].setup[1]

\* C20: if PREP_FLAG_HOLD_PARTIAL_BLOCK was set at the setup, the restore
\* after the parking motion leaves prep.st_block_index,
\* prep.steps_remaining, prep.dt_remainder and prep.step_per_mm at their
\* values at the setup, the flags exactly HOLD_PARTIAL_BLOCK | RECALCULATE,
\* pl_block null, and st_block_buffer[prep.st_block_index] still holding
\* the Bresenham data of the partially executed block, whose steps not yet
\* enqueued are prep.steps_remaining; if the flag was not set, the restore
\* clears all the preparer's flags.
C20_ParkingRestores ==
    [][Supervisor_ParkingDone =>
         /\ pl_block' = NULL
         /\ IF PREP_FLAG_HOLD_PARTIAL_BLOCK \in AtSetup.prep.recalculate_flag
            THEN LET i == prep'.st_block_index
                     b == AtSetup.blk
                 IN  /\ i = AtSetup.prep.st_block_index
                     /\ prep'.steps_remaining = AtSetup.prep.steps_remaining
                     /\ prep'.dt_remainder = AtSetup.prep.dt_remainder
                     /\ prep'.step_per_mm = AtSetup.prep.step_per_mm
                     /\ prep'.recalculate_flag = {PREP_FLAG_HOLD_PARTIAL_BLOCK,
                                                  PREP_FLAG_RECALCULATE}
                     /\ st_prep_block' = Ptr(i)
                     /\ b \in BlockIds
                     /\ pool_blk'[i] = b
                     /\ st_block_buffer'[i].direction_bits = hist[b].direction_bits
                     /\ st_block_buffer'[i].step_event_count
                            = Shl(hist[b].step_event_count, MAX_AMASS_LEVEL)
                     /\ \A a \in Axes :
                          st_block_buffer'[i].steps[a]
                              = Shl(hist[b].steps[a], MAX_AMASS_LEVEL)
                     /\ prep'.steps_remaining
                          = hist[b].step_event_count - hist[b].enq_steps
            ELSE prep'.recalculate_flag = {}]_vars

\* A parking motion after a feed hold that stopped inside a block: the ISR
\* has executed segments of the parking motion from another pool entry,
\* and the restore has put the preparer back on the held block.
C20_Witness ==
    /\ ~ParkingLoop
    /\ planner.sys_block = NULL
    /\ pl_block = NULL
    /\ prep.recalculate_flag = {PREP_FLAG_HOLD_PARTIAL_BLOCK, PREP_FLAG_RECALCULATE}
    /\ \E b \in BlockIds :
         /\ hist[b].setup /= << >>
         /\ hist[b].setup[1].blk \in BlockIds
         /\ hist[b].deq >= 1
         /\ \E i \in PoolIdx : i /= prep.st_block_index /\ pool_blk[i] = b
         /\ pool_blk[prep.st_block_index] = hist[b].setup[1].blk
         /\ prep.steps_remaining = hist[b].setup[1].prep.steps_remaining
         /\ prep.steps_remaining >= 1

\* ------------------------------------------------------------------------
\* The block pool and the publication of segments
\* ------------------------------------------------------------------------
\* C21 as stated: in every state some pool entry is referenced by no segment
\* in the ring.
C21_SomeEntryUnreferenced ==
    \E i \in PoolIdx : \A s \in Occupied : segment_buffer[s].st_block_index /= i

\* C21, amended: the pool entry the preparer loads a new planner block into
\* is referenced by no segment in the ring at that moment; a full ring may
\* reference every entry of the pool.
C21_LoadedEntryUnreferenced ==
    [][\A i \in PoolIdx :
         pool_blk'[i] /= pool_blk[i] =>
            /\ pc = "acquire"
            /\ i = Stepper_NextBlockIndex(prep.st_block_index)
            /\ st_prep_block' = Ptr(i)
            /\ \A s \in Occupied : segment_buffer[s].st_block_index /= i]_vars

\* The preparer has just loaded a block into a pool entry an earlier block
\* had, while a segment of another block is still in the ring.
C21_Witness ==
    /\ pc = "init"
    /\ st_prep_block /= NULL
    /\ pool_blk[Deref(st_prep_block)] >= 3
    /\ \E s \in Occupied : seg_blk[s] \in BlockIds
                           /\ seg_blk[s] /= pool_blk[Deref(st_prep_block)]

\* C22 as stated: every write of the preparer to the ring goes to the slot
\* indexed by segment_next_head, and head is assigned segment_next_head only
\* after the last of them.
C22_WritesSlotAtNextHead ==
    [][/\ (pc' /= pc /\ segment_buffer' /= segment_buffer) =>
            \A s \in Slots : segment_buffer'[s] /= segment_buffer[s]
                                => s = segment_next_head
       /\ (pc = "publish" /\ pc' /= pc) =>
            segment_buffer_head' = segment_next_head /\ segment_buffer' = segment_buffer
      ]_vars

\* C22, amended: the preparer writes the slot indexed by segment_buffer_head,
\* which is outside [tail, head); when it assigns head = segment_next_head
\* every field of that slot holds the value computed for this segment, and
\* it writes nothing to the slot afterwards.  Head changes nowhere else but in
\* Stepper_Reset.
C22_WriteThenPublish ==
    [][/\ (pc' /= pc /\ segment_buffer' /= segment_buffer) =>
            \A s \in Slots : segment_buffer'[s] /= segment_buffer[s]
                                => s = segment_buffer_head /\ s \notin Occupied
       /\ segment_buffer_head' /= segment_buffer_head =>
            \/ pc = "idle" /\ segment_buffer_head' = 0
            \/ /\ pc = "publish"
               /\ segment_buffer_head' = segment_next_head
               /\ segment_buffer' = segment_buffer
               /\ LET seg == segment_buffer[segment_buffer_head]
                      level == AmassLevel(loc.cycles)
                  IN  /\ seg.st_block_index = prep.st_block_index
                      /\ seg.backlash_motion = PlBlock.backlash_motion
                      /\ seg.spindle_pwm = prep.current_spindle_pwm
                      /\ seg.amass_level = level
                      /\ seg.n_step = U16(Shl(loc.last_n_steps_remaining
                                              - loc.n_steps_remaining, level))
                      /\ seg.cycles_per_tick = CyclesPerTick(Shr(loc.cycles, level))
      ]_vars

\* A segment with a spindle PWM value and an AMASS level has just been
\* published while the ISR executes the segment before it.
C22_Witness ==
    /\ pc = "incr"
    /\ loc.prep_segment \in Occupied
    /\ segment_buffer[loc.prep_segment].amass_level > 0
    /\ segment_buffer[loc.prep_segment].spindle_pwm > 0
    /\ segment_buffer[loc.prep_segment].n_step > 0
    /\ st.exec_segment /= NULL
    /\ st.exec_segment /= Ptr(loc.prep_segment)

\* ------------------------------------------------------------------------
\* The ISR: idle path, step pipelining, Bresenham counters, position
\* ------------------------------------------------------------------------
\* C23: an invocation of Stepper_MainISR that finds no executing segment and
\* head = tail shuts the stepper down as Stepper_Disable(0) does, raises
\* EXEC_CYCLE_STOP and returns before the probe check and the Bresenham
\* pass: tail, the Bresenham counters, the step count and sys_position keep
\* their values.  EXEC_CYCLE_STOP is raised by no step taken while a segment
\* is in the ring or executing.
C23_IdlePath ==
    [][/\ (Stepper_MainISR /\ st.exec_segment = NULL
                           /\ segment_buffer_head = segment_buffer_tail) =>
            /\ ~tim9'.enabled
            /\ gpio'.step = StepPinsIdle
            /\ gpio'.enable = DisabledEnablePin(FALSE)
            /\ EXEC_CYCLE_STOP \in sys_rt_exec_state'
            /\ isr'.path = "idle" /\ ~isr'.probe
            /\ segment_buffer_tail' = segment_buffer_tail
            /\ st'.counter = st.counter /\ st'.step_count = st.step_count
            /\ st'.step_outbits = st.step_outbits
            /\ st'.exec_segment = NULL
            /\ sys_position' = sys_position
       /\ (EXEC_CYCLE_STOP \in sys_rt_exec_state' \ sys_rt_exec_state) =>
            /\ Stepper_MainISR
            /\ st.exec_segment = NULL
            /\ Occupied = {}
      ]_vars

\* The ISR has taken the idle path at the end of a motion: the position and
\* the Bresenham counters are those the last tick left, the cycle stop is
\* pending and the timer is off.
C23_Witness ==
    /\ isr.path = "idle"
    /\ EXEC_CYCLE_STOP \in sys_rt_exec_state
    /\ ~tim9.enabled
    /\ sys_position /= Zero3
    /\ st.counter /= Zero3
    /\ st.exec_block /= NULL

\* The step bits the last invocation's Bresenham pass latched are waiting
\* for the next invocation to raise their pins.
LatchPending == isr.path \in {"load", "tick"} /\ st.step_outbits /= {}

\* An invocation of the ISR raises the pins of the bits in st.step_outbits
\* and no other, and each is counted as one pulse of the block whose tick
\* latched it; the first invocation after a wake-up finds no bit latched.
RaisesLatchedBits ==
    /\ IsrTick => AssertedPins' \ AssertedPins = st.step_outbits
    /\ Stepper_MainISR =>
         /\ \A b \in BlockIds : \A a \in Axes :
              hist'[b].emitted[a] = hist[b].emitted[a]
                    + (IF b = isr.blk /\ a \in st.step_outbits THEN 1 ELSE 0)
         /\ isr.path \notin {"load", "tick"} => st.step_outbits = {}

\* C24 as stated: every invocation raises exactly the bits the previous
\* invocation's Bresenham pass latched, and every latched bit stays in
\* st.step_outbits until an invocation raises its pin.
C24_EveryLatchedStepOutput ==
    [][/\ RaisesLatchedBits
       /\ (LatchPending /\ st'.step_outbits /= st.step_outbits) => Stepper_MainISR
      ]_vars

\* C24, amended: as stated between two invocations of one run of the step
\* timer; a Stepper_Reset or a Stepper_WakeUp that comes after a tick has
\* latched step bits clears them, and their pins are never raised.
C24_StepPipelining ==
    [][/\ RaisesLatchedBits
       /\ (LatchPending /\ st'.step_outbits /= st.step_outbits) =>
            \/ Stepper_MainISR
            \/ (Stepper_Reset \/ Stepper_WakeUp) /\ st'.step_outbits = {}
      ]_vars

\* A tick has raised the pins of the bits the tick before latched and has
\* latched other bits for the next one.
C24_Witness ==
    /\ PulseWindow
    /\ isr.path = "tick"
    /\ AssertedPins /= {}
    /\ st.step_outbits /= {}
    /\ AssertedPins /= st.step_outbits

\* C25 as stated: an invocation that loads a segment re-centres the
\* Bresenham counters to step_event_count >> 1 exactly when the segment's
\* st_block_index differs from st.exec_block_index, and that is so exactly
\* when the segment is the first one of its planner block the ISR loads:
\* never between two segments of one planner block.
C25_RecentreOnlyAtNewBlock ==
    [][(Stepper_MainISR /\ st.exec_segment = NULL
                        /\ segment_buffer_head /= segment_buffer_tail) =>
          LET seg == segment_buffer[segment_buffer_tail]
              blk == st_block_buffer[seg.st_block_index]
              from == IF StartsNewBlock(seg)
                      THEN [a \in Axes |-> Shr(blk.step_event_count, 1)]
                      ELSE st.counter
          IN  /\ StartsNewBlock(seg) <=> hist[seg_blk[segment_buffer_tail]].deq = 0
              /\ \A a \in Axes :
                   st'.counter[a] = Bresenham(from[a], Shr(blk.steps[a], seg.amass_level),
                                              blk.step_event_count).counter
      ]_vars

\* ------------------------------------------------------------------------
\* The preparer: zero-step bail-out and the ramp state machine
\* ------------------------------------------------------------------------
\* The step of the preparer that bails out of a call on a segment without a
\* step (Stepper.c:1149-1160).
BailStep == pc = "nstep" /\ pc' = "idle"

\* C26 as stated: the bail-out sets STEP_CONTROL_END_MOTION and enqueues
\* nothing, and the planner block's millimeters, pl_block,
\* prep.steps_remaining, prep.dt_remainder, prep.current_speed and
\* prep.ramp_type are what they were when the call started on the segment.
C26_BailRetainsAll ==
    [][BailStep =>
          /\ STEP_CONTROL_EXECUTE_HOLD \in sys.step_control
          /\ STEP_CONTROL_END_MOTION \in sys'.step_control
          /\ segment_buffer_head' = segment_buffer_head
          /\ segment_next_head' = segment_next_head
          /\ PlannerBlockAt(planner', pl_block').millimeters = loc.at_entry[1].millimeters
          /\ pl_block' = loc.at_entry[1].pl_block
          /\ prep'.steps_remaining = loc.at_entry[1].steps_remaining
          /\ prep'.dt_remainder = loc.at_entry[1].dt_remainder
          /\ prep'.current_speed = loc.at_entry[1].current_speed
          /\ prep'.ramp_type = loc.at_entry[1].ramp_type
      ]_vars

\* C26, amended: as stated but for prep.current_speed, which the carve loop
\* has brought down to prep.exit_speed, the speed at the end of the
\* deceleration, before the step count is found to be zero.
C26_BailRetainsStepData ==
    [][BailStep =>
          /\ STEP_CONTROL_EXECUTE_HOLD \in sys.step_control
          /\ STEP_CONTROL_END_MOTION \in sys'.step_control
          /\ segment_buffer_head' = segment_buffer_head
          /\ segment_next_head' = segment_next_head
          /\ segment_buffer'[segment_buffer_head].n_step = 0
          /\ PlannerBlockAt(planner', pl_block').millimeters = loc.at_entry[1].millimeters
          /\ pl_block' = loc.at_entry[1].pl_block
          /\ prep'.steps_remaining = loc.at_entry[1].steps_remaining
          /\ prep'.dt_remainder = loc.at_entry[1].dt_remainder
          /\ prep'.ramp_type = loc.at_entry[1].ramp_type
          /\ prep'.current_speed = prep.exit_speed
          /\ prep'.current_speed <= loc.at_entry[1].current_speed
      ]_vars

\* A feed hold has ended inside a block on a segment without a step: the
\* preparer has bailed out with the speed brought down to zero and the
\* block's remaining steps kept.
C26_Witness ==
    /\ pc = "idle"
    /\ pl_block /= NULL
    /\ {STEP_CONTROL_END_MOTION, STEP_CONTROL_EXECUTE_HOLD} \subseteq sys.step_control
    /\ ~hist[PlBlock.id].held
    /\ hist[PlBlock.id].enq > 0
    /\ prep.steps_remaining > 0
    /\ prep.current_speed = 0
    /\ segment_buffer[segment_buffer_head].n_step = 0


\* C27: prep.ramp_type changes only in three ways: the profile computation
\* of a block load sets it; a carve moves it forward, from DECEL_OVERRIDE to
\* CRUISE, from ACCEL to CRUISE or DECEL, from CRUISE to DECEL (a carve that
\* crosses two ramp junctions makes two of these moves), so never out of
\* DECEL and never into ACCEL or DECEL_OVERRIDE; Stepper_Reset zeroes the
\* preparer, which ends the block.
C27_RampMovesForward ==
    [][prep'.ramp_type /= prep.ramp_type =>
          \/ pc = "acquire" /\ pc' = "init"
          \/ /\ pc = "carve"
             /\ pc' = "pwm"
             /\ << prep.ramp_type, prep'.ramp_type >> \in
                    { << RAMP_DECEL_OVERRIDE, RAMP_CRUISE >>,
                      << RAMP_DECEL_OVERRIDE, RAMP_DECEL >>,
                      << RAMP_ACCEL, RAMP_CRUISE >>,
                      << RAMP_ACCEL, RAMP_DECEL >>,
                      << RAMP_CRUISE, RAMP_DECEL >> }
          \/ Stepper_Reset /\ pl_block' = NULL /\ prep'.ramp_type = 0
      ]_vars

\* A carve has just taken a block loaded in DECEL_OVERRIDE out of that
\* state, into the cruise or on into the deceleration.
C27_Witness ==
    /\ pc = "pwm"
    /\ loc.at_entry[1].ramp_type = RAMP_DECEL_OVERRIDE
    /\ prep.ramp_type \in {RAMP_CRUISE, RAMP_DECEL}


\* C28: the first segment the ISR runs of a block is loaded with the
\* counters re-centred, and a dominant axis (one whose step count is the
\* block's step_event_count) latches a step on tick k of that segment exactly
\* when k is ceil((n + 1) / 2) or a multiple of n ticks later, n being 2 to
\* the power of the segment's amass_level.  A segment ends on a multiple of
\* n ticks, so the later segments of the block keep the same law, each with
\* its own n: the dominant axis steps once every n ticks.
C28_FirstStepLatency ==
    [][IsrTick =>
          LET slot == IF st.exec_segment = NULL THEN segment_buffer_tail
                      ELSE Deref(st.exec_segment)
              seg == segment_buffer[slot]
              blk == st_block_buffer[seg.st_block_index]
              n == Shl(1, seg.amass_level)
              first == CeilDiv(n + 1, 2)
              k == seg.n_step - st'.step_count
          IN  /\ k \in 1 .. seg.n_step
              /\ st.exec_segment = NULL => k = 1
              /\ (st.exec_segment = NULL /\ hist[seg_blk[slot]].deq = 0) =>
                    /\ StartsNewBlock(seg)
                    /\ \A a \in Axes : st'.counter[a] =
                          Bresenham(Shr(blk.step_event_count, 1),
                                    Shr(blk.steps[a], seg.amass_level),
                                    blk.step_event_count).counter
              /\ \A a \in Axes :
                    blk.steps[a] = blk.step_event_count =>
                       (a \in st'.step_outbits <=> k >= first /\ (k - first) % n = 0)
      ]_vars

\* The ISR is on tick 5 of the first segment of a block, a segment at AMASS
\* level 3, and has just latched the first step of the dominant axis.
C28_Witness ==
    /\ st.exec_segment /= NULL
    /\ isr.path = "tick"
    /\ LET seg == segment_buffer[Deref(st.exec_segment)]
           blk == st_block_buffer[seg.st_block_index]
       IN  /\ hist[seg_blk[Deref(st.exec_segment)]].deq = 0
           /\ seg.amass_level = 3
           /\ seg.n_step - st.step_count = 5
           /\ \E a \in Axes : /\ blk.steps[a] = blk.step_event_count
                              /\ a \in st.step_outbits


\* C29 as stated, counted over a block: on every axis the position counts
\* of a block that is no backlash move are as many as the pulses raised on
\* the axis's pin for the block, and the pulse latched by the last tick and
\* due at the next invocation; a backlash block has no position count.
C29_PositionIffPulse ==
    \A b \in BlockIds : \A a \in Axes :
        LET count == IF hist[b].posd[a] < 0 THEN 0 - hist[b].posd[a] ELSE hist[b].posd[a]
            due == IF isr.blk = b /\ a \in st.step_outbits THEN 1 ELSE 0
        IN  count = IF hist[b].backlash_motion = 0 THEN hist[b].emitted[a] + due ELSE 0

\* C29, amended: a tick moves sys_position[axis] by one exactly when the
\* axis's Bresenham counter steps and the segment is no backlash motion,
\* and nothing else moves it.  The step is latched in st.step_outbits unless
\* the homing lock masks it, so outside a homing cycle the position moves
\* exactly with the latched bits of a segment that is no backlash motion;
\* the pulse itself is raised by the next invocation, and is lost if the
\* latch is cleared first, so a block's position counts are at least its
\* pulses, not always as many.
C29_PositionIffStepped ==
    [][/\ IsrTick =>
            LET slot == IF st.exec_segment = NULL THEN segment_buffer_tail
                        ELSE Deref(st.exec_segment)
                backlash == segment_buffer[slot].backlash_motion /= 0
            IN  \A a \in Axes :
                  LET d == sys_position'[a] - sys_position[a]
                  IN  /\ d \in {-1, 0, 1}
                      /\ (a \in st'.step_outbits /\ ~backlash) => d /= 0
                      /\ d /= 0 =>
                           /\ ~backlash
                           /\ \/ a \in st'.step_outbits
                              \/ sys.state = STATE_HOMING /\ a \notin sys.homing_axis_lock
       /\ ~IsrTick => sys_position' = sys_position
       /\ \A b \in BlockIds : \A a \in Axes :
            LET count == IF hist'[b].posd[a] < 0 THEN 0 - hist'[b].posd[a]
                         ELSE hist'[b].posd[a]
                due == IF isr'.blk = b /\ a \in st'.step_outbits THEN 1 ELSE 0
            IN  IF hist'[b].backlash_motion = 0
                THEN count >= hist'[b].emitted[a] + due
                ELSE count = 0
      ]_vars

\* A tick of a block that is no backlash move has latched a step and moved
\* the position with it, after a backlash block whose pulses went out with
\* no position count.
C29_Witness ==
    /\ isr.path \in {"load", "tick"}
    /\ isr.blk \in BlockIds
    /\ hist[isr.blk].backlash_motion = 0
    /\ \E a \in st.step_outbits :
         hist[isr.blk].posd[a] \notin {0, hist[isr.blk].emitted[a],
                                       0 - hist[isr.blk].emitted[a]}
    /\ \E c \in BlockIds :
         /\ hist[c].backlash_motion /= 0
         /\ hist[c].posd = Zero3
         /\ \E a \in Axes : hist[c].emitted[a] > 0


\* ------------------------------------------------------------------------
\* The ISR's read of exec_block on the idle path
\* ------------------------------------------------------------------------
\* C30 as stated: when an invocation takes the idle path, st.exec_block
\* points at a pool entry, the entry is the one st.exec_block_index names,
\* and it still holds the block whose segment the ISR consumed last: the
\* preparer has loaded no other block into it, wherever the preparer is in
\* Stepper_PrepareBuffer.
C30_IdleReadsLastBlock ==
    [][(Stepper_MainISR /\ st.exec_segment = NULL
                        /\ segment_buffer_head = segment_buffer_tail) =>
          /\ st.exec_block /= NULL
          /\ st.exec_block = Ptr(st.exec_block_index)
          /\ LET b == pool_blk[st.exec_block_index]
             IN  /\ b \in BlockIds
                 /\ hist[b].deq > 0
                 /\ hist[b].deq = hist[b].enq
                 /\ \A c \in BlockIds : hist[c].deq > 0 => c <= b
                 /\ st_block_buffer[st.exec_block_index].steps =
                        [a \in Axes |-> Shl(hist[b].steps[a], MAX_AMASS_LEVEL)]
      ]_vars


\* ------------------------------------------------------------------------
\* The preparer's step accounting
\* ------------------------------------------------------------------------
\* C31: a segment is enqueued with at least one step, and its step count
\* before the AMASS shift, n_step >> amass_level, is what it takes off
\* prep.steps_remaining; a block carved to its end has had exactly
\* step_event_count steps enqueued, whatever planner recomputes and feed
\* holds came in between; and prep.steps_remaining goes up only when a
\* block that has no segment yet is loaded, to that block's
\* step_event_count.
C31_StepAccounting ==
    [][/\ (pc = "publish" /\ pc' = "incr") =>
            LET seg == segment_buffer[loc.prep_segment]
                b == PlBlock.id
            IN  /\ Shr(seg.n_step, seg.amass_level) >= 1
                /\ Shr(seg.n_step, seg.amass_level) =
                        loc.last_n_steps_remaining - loc.n_steps_remaining
                /\ loc.last_n_steps_remaining = prep.steps_remaining
                /\ hist'[b].enq_steps =
                        hist[b].enq_steps + Shr(seg.n_step, seg.amass_level)
                /\ hist'[b].enq_steps + loc.n_steps_remaining = hist[b].step_event_count
       /\ (pc = "update" /\ pc' = "exit") =>
            /\ prep'.steps_remaining = loc.n_steps_remaining
            /\ prep'.steps_remaining < prep.steps_remaining
       /\ \A b \in BlockIds :
            hist'[b].carved => hist'[b].enq_steps = hist'[b].step_event_count
       /\ prep'.steps_remaining > prep.steps_remaining =>
            /\ pc = "acquire" /\ pc' = "init"
            /\ hist[PlannerBlockAt(planner', pl_block').id].enq = 0
            /\ prep'.steps_remaining =
                    hist[PlannerBlockAt(planner', pl_block').id].step_event_count
      ]_vars

\* A block of several steps that a feed hold stopped mid-way has been
\* resumed and carved to its end in several segments.
C31_Witness ==
    \E b \in BlockIds :
        /\ hist[b].carved
        /\ hist[b].held
        /\ hist[b].enq >= 3
        /\ hist[b].step_event_count >= 3
        /\ hist[b].enq_steps = hist[b].step_event_count


C33_ExecBlockNeverNull ==
    [][Stepper_MainISR =>
          IF st.exec_segment = NULL /\ segment_buffer_head = segment_buffer_tail
          THEN st.exec_block /= NULL
          ELSE st'.exec_block /= NULL
      ]_vars


\* ------------------------------------------------------------------------
\* Direction pins and step pulses
\* ------------------------------------------------------------------------
\* C34 as stated: an invocation of the ISR that changes the level of a
\* direction pin has no step pulse to raise: the last pulse of the segment
\* before was raised by an earlier invocation and has fallen, and the first
\* pulse of the segment it loads is raised by a later one.  (An invocation
\* raises the pins of st.step_outbits at its entry, before it writes the
\* direction pins, and they stay asserted until the compare match.)
C34_DirStableWhileStepAsserted ==
    [][(Stepper_MainISR /\ gpio'.dir /= gpio.dir) =>
            /\ st.step_outbits = {}
            /\ AssertedPins' \subseteq AssertedPins
      ]_vars


\* ------------------------------------------------------------------------
\* The AMASS levels
\* ------------------------------------------------------------------------
\* C35: the timing computation gives a segment amass_level 0 exactly when
\* its step period before the AMASS shift is below F_TIMER_STEPPER/8000
\* cycles; at level 1 or above the stored cycles_per_tick is at least
\* F_TIMER_STEPPER/16000, and at levels 1 and 2 it is below
\* F_TIMER_STEPPER/8000; and so it is for every segment in the ring.
C35_AmassOverdriveBound ==
    [][/\ ((pc = "rate" /\ pc' = "publish")
              \/ (\E n_step \in 1 .. 2 : Timing_Segment(loc'.cycles, n_step))) =>
            LET seg == segment_buffer'[loc.prep_segment]
            IN  /\ seg.amass_level \in 0 .. MAX_AMASS_LEVEL
                /\ seg.amass_level = 0 <=> loc'.cycles < F_TIMER_STEPPER \div 8000
                /\ seg.amass_level >= 1 =>
                       /\ seg.cycles_per_tick >= F_TIMER_STEPPER \div 16000
                       /\ seg.cycles_per_tick =
                                Min(65535, Shr(loc'.cycles, seg.amass_level))
                /\ seg.amass_level \in {1, 2} =>
                       seg.cycles_per_tick < F_TIMER_STEPPER \div 8000
       /\ \A s \in Occupied' :
            /\ segment_buffer'[s].amass_level >= 1 =>
                   segment_buffer'[s].cycles_per_tick >= F_TIMER_STEPPER \div 16000
            /\ segment_buffer'[s].amass_level \in {1, 2} =>
                   segment_buffer'[s].cycles_per_tick < F_TIMER_STEPPER \div 8000
      ]_vars

\* The timing of a step period of exactly F_TIMER_STEPPER/8000 cycles, the
\* shortest one that is smoothed: AMASS level 1 and a tick period of
\* F_TIMER_STEPPER/16000.
C35_Witness ==
    /\ loc.cycles = AMASS_LEVEL1
    /\ segment_buffer[loc.prep_segment].amass_level = 1
    /\ segment_buffer[loc.prep_segment].cycles_per_tick = F_TIMER_STEPPER \div 16000
    /\ segment_buffer[loc.prep_segment].n_step = 2


\* ------------------------------------------------------------------------
\* Step conservation across a hold, a parking motion and the resume
\* ------------------------------------------------------------------------
\* Block b was stopped inside by a feed hold, a parking motion was set up
\* with b as the partially executed block and its segments were executed.
ResumedAfterParking(b) ==
    /\ hist[b].held
    /\ \E p \in BlockIds : /\ hist[p].setup /= << >>
                           /\ hist[p].setup[1].blk = b
                           /\ hist[p].deq > 0

\* C36: a block stopped mid-way by a feed hold, parked over and resumed
\* through Stepper_ParkingRestoreBuffer has, once it is complete, latched on
\* every axis exactly the planner's steps[axis] pulses, those before the
\* interruption and those after it together.
C36_StepsConservedAcrossParking ==
    \A b \in BlockIds :
        (Completed(b) /\ ResumedAfterParking(b)) =>
            \A a \in Axes : hist[b].emitted[a] = hist[b].steps[a]

============================================================================
